---- MODULE Spec2Model ----
(***************************************************************************)
(* The message-store query core of whatsapp-mcp-server/whatsapp.py.        *)
(*                                                                         *)
(* A second, independent program of the repository is modelled at the end: *)
(* the DataProcessor of templates/python-project/src/main.py.              *)
(*                                                                         *)
(* The store (tables messages, chats, contacts) is written by the bridge   *)
(* and read by the query operations.  Every query operation is one action: *)
(* it reads the store of the current state, and leaves in `ret` what the   *)
(* call returned or raised and in `conns` the connections still open.      *)
(*                                                                         *)
(* Encoding of values                                                      *)
(*   - a TEXT timestamp of the store is a number: 0 is a text that         *)
(*     datetime.fromisoformat rejects (the empty string, which sorts below *)
(*     every other text), t >= 1 is the text the sqlite3 datetime adapter  *)
(*     writes for the instant t, so that the text order of the store is    *)
(*     the order of the instants, and Garbled is a non-empty text that     *)
(*     datetime.fromisoformat rejects and that sorts above every instant   *)
(*     (a word such as "soon");                                            *)
(*   - a str is a TLA+ string, except a message content and a search       *)
(*     query, which are sequences of one-character strings (LIKE reads     *)
(*     them character by character);                                       *)
(*   - Python's None and SQL's NULL are the string "None", and <<"None">>  *)
(*     where a character sequence is expected.                             *)
(***************************************************************************)
EXTENDS Integers, Sequences, FiniteSets, TLC

\* Bounds of the model.
MaxMsgs == 3
MaxTs == 3
MaxCount == 2
MaxLimit == 2
MaxPage == 2
MaxRows == 101
MaxItems == 2
MaxCalls == 2

\* Defaults of list_messages: limit, context_before and context_after.
DefaultLimit == 20
DefaultContext == 1
\* LIMIT 50 of search_contacts.
SearchLimit == 50

None == "None"

VARIABLES
    messages,   \* table messages: a set of rows, (chat_jid, id) unique
    chats,      \* table chats: a set of rows, jid unique
    contacts,   \* table contacts: a set of rows
    call,       \* the last call made: operation and arguments
    ret,        \* what that call returned or raised
    conns,      \* number of sqlite3 connections open
    pager,      \* a caller fetching the pages of one listing in order
    processors, \* the DataProcessor instances of templates/python-project
    returned    \* history: per instance, the `count` of every result that
                \* process_items returned since construction or the last reset

vars == <<messages, chats, contacts, call, ret, conns, pager, processors, returned>>
store == <<messages, chats, contacts>>

----------------------------------------------------------------------------
\* Values of the model's store.

GroupJid == "120@g.us"
DirectJid == "91@s.whatsapp.net"
OtherJid == "92@s.whatsapp.net"
Ids == {"A1", "A2", "A3"}

\* Display name the bridge records for a chat (one direct chat has none).
BridgeChatName(jid) ==
    IF jid = GroupJid THEN "Team" ELSE IF jid = OtherJid THEN "Ana" ELSE None

MessageRow(ts, sender, content, from_me, jid, id, media) ==
    [timestamp |-> ts, sender |-> sender, content |-> content,
     is_from_me |-> from_me, chat_jid |-> jid, id |-> id, media_type |-> media]

ChatRow(jid, name, ts, last, sender, from_me) ==
    [jid |-> jid, name |-> name, last_message_time |-> ts, last_message |-> last,
     last_sender |-> sender, last_is_from_me |-> from_me]

ContactRow(phone, name, jid) == [phone_number |-> phone, name |-> name, jid |-> jid]

----------------------------------------------------------------------------
\* Row Mapper and SQL helpers.

\* datetime.fromisoformat on a timestamp text of the store.
Garbled == MaxTs + 1
FromIsoFormatOk(text) == text >= 1 /\ text # Garbled
FromIsoFormat(text) == text

\* The sqlite3 adapter binding a datetime as a query parameter.
AdaptDatetime(dt) == dt

\* chats.name of the LEFT JOIN chats ON messages.chat_jid = chats.jid.
JoinChatName(jid) ==
    IF \E c \in chats : c.jid = jid
    THEN (CHOOSE c \in chats : c.jid = jid).name
    ELSE None

\* Message(...) built from one row of the message queries.
RowOk(row) == FromIsoFormatOk(row.timestamp)
MapRow(row) ==
    [timestamp |-> FromIsoFormat(row.timestamp), sender |-> row.sender,
     chat_name |-> JoinChatName(row.chat_jid), content |-> row.content,
     is_from_me |-> row.is_from_me, chat_jid |-> row.chat_jid, id |-> row.id,
     media_type |-> row.media_type]

MapRows(rows) == [i \in 1..Len(rows) |-> MapRow(rows[i])]
RowsOk(rows) == \A i \in 1..Len(rows) : RowOk(rows[i])

\* reversed(cursor.fetchall())
ReverseNot(s) == s
Reverse(s) == [i \in 1..Len(s) |-> s[Len(s) + 1 - i]]

\* ORDER BY: every sequence of the rows of S in non-decreasing rank; SQLite
\* leaves the order of rows of equal rank open.
RECURSIVE OrderBy(_, _)
OrderBy(S, rank) ==
    IF S = {} THEN {<<>>}
    ELSE UNION { { <<m>> \o r : r \in OrderBy(S \ {m}, rank) } :
                 m \in {x \in S : \A y \in S : rank[x] <= rank[y]} }

\* LIMIT ? OFFSET ?: number of rows fetched out of n candidates.  SQLite reads
\* a negative LIMIT as no limit and a negative OFFSET as 0.
Min(a, b) == IF a <= b THEN a ELSE b
Max(a, b) == IF a >= b THEN a ELSE b
SqlLimitCount(n, limit, offset) ==
    LET rest == Max(0, n - Max(0, offset))
    IN  IF limit < 0 THEN rest ELSE Min(limit, rest)
SqlLimitSkipping(rows, limit, offset) ==
    SubSeq(rows, Max(0, offset) + 2,
           Max(0, offset) + 1 + SqlLimitCount(Len(rows), limit, offset + 1))
SqlLimit(rows, limit, offset) ==
    SubSeq(rows, Max(0, offset) + 1,
           Max(0, offset) + SqlLimitCount(Len(rows), limit, offset))

\* finally: if 'conn' in locals(): conn.close()
CloseOnReturn(connected, exit) == IF connected /\ exit = "return" THEN 1 ELSE 0
CloseInFinally(connected, exit) == IF connected THEN 1 ELSE 0

----------------------------------------------------------------------------
\* get_message_context

Raised(type, detail, opened, exit) ==
    [kind |-> type, detail |-> detail, opened |-> opened,
     closed |-> CloseInFinally(opened > 0, exit)]

\* ORDER BY messages.timestamp DESC of the rows before the target, and
\* ORDER BY messages.timestamp ASC of the rows after it.
BeforeRankAsc(m) == m.timestamp
BeforeRank(m) == 0 - m.timestamp
AfterRank(m) == m.timestamp

\* if not msg_data: raise ValueError(f"Message with ID {message_id} not found")
NotFoundAsEmpty(message_id) ==
    [kind |-> "MessageContext", message |-> None, before |-> <<>>, after |-> <<>>,
     opened |-> 1, closed |-> 1]
NotFound(message_id) == Raised("ValueError", "not found", 1, "not found")

\* The windows around the target row, after the target was fetched.
ContextOfTarget(row, before, after, fault) ==
    IF ~RowOk(row) THEN {Raised("ValueError", "fromisoformat", 1, "mapping")}
    ELSE
    LET target == MapRow(row)
        ts == AdaptDatetime(target.timestamp)
        below == {m \in messages : m.chat_jid = target.chat_jid /\ m.timestamp < ts}
        above == {m \in messages : m.chat_jid = target.chat_jid /\ m.timestamp > ts}
        fetchedBefore == {SqlLimit(p, before, 0) :
                            p \in OrderBy(below, [m \in below |-> BeforeRank(m)])}
        fetchedAfter == {SqlLimit(p, after, 0) :
                            p \in OrderBy(above, [m \in above |-> AfterRank(m)])}
    IN  IF fault = "before" THEN {Raised("sqlite3.Error", "execute", 1, "error")}
        ELSE UNION {
          IF ~RowsOk(b) THEN {Raised("ValueError", "fromisoformat", 1, "mapping")}
          ELSE IF fault = "after" THEN {Raised("sqlite3.Error", "execute", 1, "error")}
          ELSE {
            IF ~RowsOk(a) THEN Raised("ValueError", "fromisoformat", 1, "mapping")
            ELSE [kind |-> "MessageContext", message |-> target,
                  before |-> MapRows(Reverse(b)), after |-> MapRows(a),
                  opened |-> 1, closed |-> CloseInFinally(TRUE, "return")]
            : a \in fetchedAfter }
          : b \in fetchedBefore }

\* fault: the store access of this call that fails ("none": no failure).
GetMessageContext(message_id, before, after, fault) ==
    IF fault = "connect" THEN {Raised("sqlite3.Error", "connect", 0, "error")}
    ELSE IF fault = "target" THEN {Raised("sqlite3.Error", "execute", 1, "error")}
    ELSE
    LET found == {m \in messages : m.id = message_id}
    IN  IF found = {}
        THEN {NotFound(message_id)}
        ELSE UNION {ContextOfTarget(row, before, after, fault) : row \in found}

ContextFaults == {"none", "connect", "target", "before", "after"}

----------------------------------------------------------------------------
\* Store failures.  A fault names the one store access of a call that raises
\* sqlite3.Error: access `at` of the k-th invocation of function `fn` made
\* during the call.

NoFault == [fn |-> "none", at |-> "none", k |-> 0]
Fault(fn, at, k) == [fn |-> fn, at |-> at, k |-> k]
\* The access of the k-th invocation of fn that fails, "none" if none does.
SiteOf(fault, fn, k) == IF fault.fn = fn /\ fault.k = k THEN fault.at ELSE "none"

----------------------------------------------------------------------------
\* get_sender_name and format_message

\* Truth value of an Optional[str]: None and the empty string are false.
Truthy(str) == str # None /\ str # ""
\* The same for a character sequence, whose None is NoneText.
NoneText == <<None>>
TruthyText(text) == text # NoneText /\ text # <<>>

\* SELECT name FROM contacts WHERE jid = ? OR phone_number = ?; fetchone()
SenderNameUnknown(sender_jid) == "Unknown"
SenderNameFallback(sender_jid) == sender_jid

GetSenderName(sender_jid, fault) ==
    IF fault = "connect"
    THEN {[name |-> SenderNameFallback(sender_jid), opened |-> 0,
           closed |-> CloseInFinally(FALSE, "error")]}
    ELSE IF fault = "execute"
    THEN {[name |-> SenderNameFallback(sender_jid), opened |-> 1,
           closed |-> CloseInFinally(TRUE, "error")]}
    ELSE
    LET rows == {c \in contacts : c.jid = sender_jid \/ c.phone_number = sender_jid}
    IN  IF rows = {}
        THEN {[name |-> SenderNameFallback(sender_jid), opened |-> 1,
               closed |-> CloseInFinally(TRUE, "return")]}
        ELSE {[name |-> IF Truthy(c.name) THEN c.name
                        ELSE SenderNameFallback(sender_jid),
               opened |-> 1, closed |-> CloseInFinally(TRUE, "return")] : c \in rows}

\* str.upper() on a media type.
Upper(media) == IF media = "image" THEN "IMAGE"
                ELSE IF media = "audio" THEN "AUDIO" ELSE media

\* One formatted line: the parts of msg_parts.  strftime keeps the instant.
FormatLine(message, sender_name) ==
    [chat |-> IF Truthy(message.chat_name) THEN message.chat_name ELSE None,
     who |-> IF message.is_from_me THEN "You" ELSE sender_name,
     time |-> message.timestamp,
     media |-> IF Truthy(message.media_type) THEN Upper(message.media_type) ELSE None,
     content |-> message.content]

\* format_message(message, show_chat_info=True)
FormatMessage(message, fault) ==
    {[line |-> FormatLine(message, n.name), opened |-> n.opened, closed |-> n.closed] :
        n \in GetSenderName(message.sender, fault)}

\* "No messages to display."
NoMessagesLine ==
    [chat |-> None, who |-> "No messages to display.", time |-> 0, media |-> None,
     content |-> <<>>]

\* format_messages_list: the lines of the text, with the connections the
\* lookups of the sender names opened and closed.
RECURSIVE FormatFrom(_, _, _)
FormatFrom(msgs, k, fault) ==
    IF k > Len(msgs) THEN {[text |-> <<>>, opened |-> 0, closed |-> 0]}
    ELSE UNION {
           {[text |-> <<f.line>> \o r.text, opened |-> f.opened + r.opened,
             closed |-> f.closed + r.closed] : r \in FormatFrom(msgs, k + 1, fault)}
           : f \in FormatMessage(msgs[k], SiteOf(fault, "get_sender_name", k)) }

FormatMessagesList(msgs, fault) ==
    IF msgs = <<>> THEN {[text |-> <<NoMessagesLine>>, opened |-> 0, closed |-> 0]}
    ELSE FormatFrom(msgs, 1, fault)

----------------------------------------------------------------------------
\* list_messages

\* A time bound argument: None, or a str: empty, not ISO-8601 ("bad"), or the
\* ISO-8601 text of instant t with separator " " or "T".
NoneTime == [form |-> "None", t |-> 0]
EmptyTime == [form |-> "empty", t |-> 0]
BadTime == [form |-> "bad", t |-> 0]
IsoTime(sep, t) == [form |-> sep, t |-> t]
TruthyTime(arg) == arg.form \notin {"None", "empty"}
\* datetime.fromisoformat on the argument
FromIsoFormatArgOk(arg) == arg.form \in {" ", "T"}
FromIsoFormatArg(arg) == arg.t

\* LOWER() and the case folding of LIKE, on the characters of the model.
Lower(c) == IF c = "A" THEN "a" ELSE IF c = "B" THEN "b"
            ELSE IF c = "T" THEN "t" ELSE IF c = "G" THEN "g"
            ELSE IF c = "U" THEN "u" ELSE IF c = "S" THEN "s" ELSE c
LowerText(text) == [i \in 1..Len(text) |-> Lower(text[i])]

\* text LIKE pattern: % matches any run of characters, _ any one character.
RECURSIVE Like(_, _)
Like(text, pattern) ==
    IF pattern = <<>> THEN text = <<>>
    ELSE IF Head(pattern) = "%"
         THEN Like(text, Tail(pattern)) \/ (text # <<>> /\ Like(Tail(text), pattern))
         ELSE /\ text # <<>>
              /\ Head(pattern) = "_" \/ Lower(Head(pattern)) = Lower(Head(text))
              /\ Like(Tail(text), Tail(pattern))

\* The clauses of where_clauses.
AfterClauseInclusive(m, after) == m.timestamp >= AdaptDatetime(FromIsoFormatArg(after))
AfterClause(m, after) == m.timestamp > AdaptDatetime(FromIsoFormatArg(after))
BeforeClause(m, before) == m.timestamp < AdaptDatetime(FromIsoFormatArg(before))
SenderClause(m, sender_phone_number) == m.sender = sender_phone_number
ChatClause(m, chat_jid) == m.chat_jid = chat_jid
QueryClause(m, query) ==
    Like(LowerText(m.content), LowerText(<<"%">> \o query \o <<"%">>))

\* WHERE ... AND ...: a clause is there when its argument is truthy.
Where(m, a) ==
    /\ TruthyTime(a.after) => AfterClause(m, a.after)
    /\ TruthyTime(a.before) => BeforeClause(m, a.before)
    /\ Truthy(a.sender_phone_number) => SenderClause(m, a.sender_phone_number)
    /\ Truthy(a.chat_jid) => ChatClause(m, a.chat_jid)
    /\ TruthyText(a.query) => QueryClause(m, a.query)

\* ORDER BY messages.timestamp DESC
ListRank(m) == 0 - m.timestamp

\* except sqlite3.Error: return []
EmptyList(opened, connected) ==
    [kind |-> "list", value |-> <<>>, opened |-> opened,
     closed |-> CloseInFinally(connected, "error")]

\* raise ValueError(f"Invalid date format for '{field}': {value}. ...")
InvalidDate(field, value) ==
    [kind |-> "ValueError", detail |-> "Invalid date format", field |-> field,
     value |-> value, opened |-> 1, closed |-> CloseInFinally(TRUE, "validation")]

\* for msg in result: context = get_message_context(msg.id, ...): the contexts
\* of result[i..], or the exception that ended the loop.
RECURSIVE ExpandFromKeeping(_, _, _, _)
ExpandFromKeeping(result, i, a, fault) ==
    IF i > Len(result)
    THEN {[kind |-> "ok", contexts |-> <<>>, opened |-> 0, closed |-> 0]}
    ELSE UNION {
           IF c.kind # "MessageContext"
           THEN {[kind |-> "ok", contexts |-> <<>>, opened |-> c.opened,
                  closed |-> c.closed]}
           ELSE {[r EXCEPT !.contexts = <<c>> \o r.contexts,
                           !.opened = c.opened + r.opened,
                           !.closed = c.closed + r.closed] :
                    r \in ExpandFromKeeping(result, i + 1, a, fault)}
           : c \in GetMessageContext(result[i].id, a.context_before, a.context_after,
                                     SiteOf(fault, "get_message_context", i)) }
RECURSIVE ExpandFrom(_, _, _, _)
ExpandFrom(result, i, a, fault) ==
    IF i > Len(result)
    THEN {[kind |-> "ok", contexts |-> <<>>, opened |-> 0, closed |-> 0]}
    ELSE UNION {
           IF c.kind # "MessageContext"
           THEN {[kind |-> c.kind, detail |-> c.detail, contexts |-> <<>>,
                  opened |-> c.opened, closed |-> c.closed]}
           ELSE {[r EXCEPT !.contexts = <<c>> \o r.contexts,
                           !.opened = c.opened + r.opened,
                           !.closed = c.closed + r.closed] :
                    r \in ExpandFrom(result, i + 1, a, fault)}
           : c \in GetMessageContext(result[i].id, a.context_before, a.context_after,
                                     SiteOf(fault, "get_message_context", i)) }

\* messages_with_context: before, message, after of every context in turn.
RECURSIVE Flatten(_)
Flatten(contexts) ==
    IF contexts = <<>> THEN <<>>
    ELSE Head(contexts).before \o <<Head(contexts).message>> \o Head(contexts).after
         \o Flatten(Tail(contexts))

\* return format_messages_list(...); opened and closed count the connections
\* of the nested get_message_context calls.
Formatted(msgs, result, contexts, opened, closed, fault) ==
    {[kind |-> "str", text |-> f.text, result |-> result, contexts |-> contexts,
      opened |-> 1 + opened + f.opened,
      closed |-> closed + f.closed + CloseInFinally(TRUE, "return")] :
        f \in FormatMessagesList(msgs, fault)}

\* The call from the fetched rows on.
ListFetched(rows, a, fault) ==
    IF ~RowsOk(rows)
    THEN {[kind |-> "ValueError", detail |-> "fromisoformat", opened |-> 1,
           closed |-> CloseInFinally(TRUE, "mapping")]}
    ELSE
    LET result == MapRows(rows)
    IN  IF a.include_context /\ result # <<>>
        THEN UNION {
               IF e.kind = "ok"
               THEN Formatted(Flatten(e.contexts), result, e.contexts, e.opened, e.closed,
                              fault)
               ELSE IF e.kind = "sqlite3.Error"
               THEN {[kind |-> "list", value |-> <<>>, opened |-> 1 + e.opened,
                      closed |-> e.closed + CloseInFinally(TRUE, "error")]}
               ELSE {[kind |-> e.kind, detail |-> e.detail, opened |-> 1 + e.opened,
                      closed |-> e.closed + CloseInFinally(TRUE, "raise")]}
               : e \in ExpandFrom(result, 1, a, fault) }
        ELSE Formatted(result, result, <<>>, 0, 0, fault)

ListMessages(a, fault) ==
    IF SiteOf(fault, "list_messages", 1) = "connect" THEN {EmptyList(0, FALSE)}
    ELSE IF TruthyTime(a.after) /\ ~FromIsoFormatArgOk(a.after)
    THEN {InvalidDate("after", a.after)}
    ELSE IF TruthyTime(a.before) /\ ~FromIsoFormatArgOk(a.before)
    THEN {InvalidDate("before", a.before)}
    ELSE IF SiteOf(fault, "list_messages", 1) = "execute" THEN {EmptyList(1, TRUE)}
    ELSE
    LET matched == {m \in messages : Where(m, a)}
        offset == a.page * a.limit
        fetched == {SqlLimit(p, a.limit, offset) :
                        p \in OrderBy(matched, [m \in matched |-> ListRank(m)])}
    IN  UNION {ListFetched(rows, a, fault) : rows \in fetched}

----------------------------------------------------------------------------
\* Directory queries: list_chats, search_contacts, get_contact_chats,
\* get_chat, get_direct_chat_by_contact, and get_last_interaction.

\* The characters of the names, phone numbers and jids of the model.
Chars(str) ==
    CASE str = "Team" -> <<"T", "e", "a", "m">>
      [] str = "Ana" -> <<"A", "n", "a">>
      [] str = "91" -> <<"9", "1">>
      [] str = "92" -> <<"9", "2">>
      [] str = "120@g.us" ->
           <<"1", "2", "0", "@", "g", ".", "u", "s">>
      [] str = "91@s.whatsapp.net" ->
           <<"9", "1", "@", "s", ".", "w", "h", "a", "t", "s", "a", "p", "p", ".", "n", "e", "t">>
      [] str = "92@s.whatsapp.net" ->
           <<"9", "2", "@", "s", ".", "w", "h", "a", "t", "s", "a", "p", "p", ".", "n", "e", "t">>
      [] str = "@g.us" ->
           <<"@", "g", ".", "u", "s">>
      [] str = "g.us" ->
           <<"g", ".", "u", "s">>
      [] str = "120@g.usa" ->
           <<"1", "2", "0", "@", "g", ".", "u", "s", "a">>
      [] str = "120@G.US" ->
           <<"1", "2", "0", "@", "G", ".", "U", "S">>
      [] str = "@g.us@s.whatsapp.net" ->
           <<"@", "g", ".", "u", "s", "@", "s", ".", "w", "h", "a", "t", "s", "a", "p", "p", ".", "n", "e", "t">>
      [] str = "120@g.u" ->
           <<"1", "2", "0", "@", "g", ".", "u">>
      [] str = "@s.whatsapp.net" ->
           <<"@", "s", ".", "w", "h", "a", "t", "s", "a", "p", "p", ".", "n", "e", "t">>
      [] OTHER -> <<>>

\* column LIKE pattern on a nullable column: NULL matches nothing.
LikeColumn(value, pattern) ==
    value # None /\ Like(LowerText(Chars(value)), LowerText(pattern))
Pattern(query) == <<"%">> \o query \o <<"%">>

\* Chat.is_group: self.jid.endswith("@g.us")
EndsWith(chars, suffix) ==
    /\ Len(chars) >= Len(suffix)
    /\ SubSeq(chars, Len(chars) - Len(suffix) + 1, Len(chars)) = suffix
GroupSuffix == <<"@", "g", ".", "u", "s">>
IsGroupAnyCase(chat) == EndsWith(LowerText(Chars(chat.jid)), GroupSuffix)
IsGroup(chat) == EndsWith(Chars(chat.jid), GroupSuffix)

\* chat_jid LIKE '%@s.whatsapp.net'
IsAnyJid(jid) == TRUE
IsDirectJid(jid) == LikeColumn(jid, <<"%">> \o Chars("@s.whatsapp.net"))

\* Chat(...) built from one row; the time is parsed when it is truthy.
MapChat(row, include_last_message) ==
    [jid |-> row.jid, name |-> row.name,
     last_message_time |-> IF row.last_message_time # 0
                           THEN FromIsoFormat(row.last_message_time) ELSE 0,
     last_message |-> IF include_last_message THEN row.last_message ELSE None,
     last_sender |-> IF include_last_message THEN row.last_sender ELSE None,
     last_is_from_me |-> IF include_last_message THEN row.last_is_from_me ELSE None]
MapChats(rows, include_last_message) ==
    [i \in 1..Len(rows) |-> MapChat(rows[i], include_last_message)]
\* datetime.fromisoformat(chat_data[2]) if chat_data[2] else None: the empty
\* text is falsy and never parsed.
ChatOk(row) == row.last_message_time # 0 => FromIsoFormatOk(row.last_message_time)
ChatsOk(rows) == \A i \in 1..Len(rows) : ChatOk(rows[i])

\* Position of a name in the order of the BINARY collation, NULL first.
NameRank(name) ==
    CASE name = None -> 0
      [] name = "Ana" -> 1
      [] name = "Team" -> 2
      [] OTHER -> 3

\* ORDER BY of list_chats: the rank of a row under sort_by.
ChatRankOldestFirst(c, sort_by) ==
    IF sort_by = "last_active" THEN c.last_message_time
    ELSE IF sort_by = "name" THEN NameRank(c.name)
    ELSE 0
ChatRank(c, sort_by) ==
    IF sort_by = "last_active" THEN 0 - c.last_message_time
    ELSE IF sort_by = "name" THEN NameRank(c.name)
    ELSE 0

ListOf(value, opened, connected, exit) ==
    [kind |-> "list", value |-> value, opened |-> opened,
     closed |-> CloseInFinally(connected, exit)]

\* Without an ORDER BY the rows come in the order of the table scan, which
\* SQLite leaves unspecified; it is the same for every query of one store.
\* scan is that order: the rows of chats in a sequence.
ScanRankAny(c, scan) == 0
ScanRank(c, scan) == CHOOSE i \in 1..Len(scan) : scan[i] = c
Scans == OrderBy(chats, [c \in chats |-> 0])

ListChatsScanned(query, limit, page, include_last_message, sort_by, fault, scan) ==
    IF fault = "connect" THEN {ListOf(<<>>, 0, FALSE, "error")}
    ELSE IF fault = "execute" THEN {ListOf(<<>>, 1, TRUE, "error")}
    ELSE
    LET matched == {c \in chats : TruthyText(query) => LikeColumn(c.name, Pattern(query))}
        rank == [c \in matched |-> IF sort_by \in {"last_active", "name"}
                                   THEN ChatRank(c, sort_by) ELSE ScanRank(c, scan)]
        fetched == {SqlLimit(p, limit, page * limit) : p \in OrderBy(matched, rank)}
    IN  {IF ChatsOk(rows)
         THEN ListOf(MapChats(rows, include_last_message), 1, TRUE, "return")
         ELSE Raised("ValueError", "fromisoformat", 1, "mapping") : rows \in fetched}

\* One call, whatever the order of the scan.
ListChats(query, limit, page, include_last_message, sort_by, fault) ==
    UNION {ListChatsScanned(query, limit, page, include_last_message, sort_by, fault, scan) :
             scan \in Scans}

\* SELECT phone_number, name, jid ... ORDER BY name ASC LIMIT 50
SearchContacts(query, fault) ==
    IF fault = "connect" THEN {ListOf(<<>>, 0, FALSE, "error")}
    ELSE IF fault = "execute" THEN {ListOf(<<>>, 1, TRUE, "error")}
    ELSE
    LET matched == {c \in contacts : \/ LikeColumn(c.name, Pattern(query))
                                     \/ LikeColumn(c.phone_number, Pattern(query))}
        fetched == {SqlLimit(p, SearchLimit, 0) :
                        p \in OrderBy(matched, [c \in matched |-> NameRank(c.name)])}
    IN  {ListOf(rows, 1, TRUE, "return") : rows \in fetched}

\* SELECT DISTINCT chats.* FROM chats JOIN messages ON chats.jid = messages.chat_jid
\* WHERE messages.sender = ? OR chats.jid = ?
GetContactChats(jid, limit, page, fault) ==
    IF fault = "connect" THEN {ListOf(<<>>, 0, FALSE, "error")}
    ELSE IF fault = "execute" THEN {ListOf(<<>>, 1, TRUE, "error")}
    ELSE
    LET matched == {c \in chats : \E m \in messages :
                        m.chat_jid = c.jid /\ (m.sender = jid \/ c.jid = jid)}
        fetched == {SqlLimit(p, limit, page * limit) :
                        p \in OrderBy(matched,
                                      [c \in matched |-> ChatRank(c, "last_active")])}
    IN  {IF ChatsOk(rows)
         THEN ListOf(MapChats(rows, TRUE), 1, TRUE, "return")
         ELSE Raised("ValueError", "fromisoformat", 1, "mapping") : rows \in fetched}

\* An Optional[Chat]: the chat, or None.
ChatOrNone(value, opened, connected, exit) ==
    [kind |-> "Optional[Chat]", value |-> value, opened |-> opened,
     closed |-> CloseInFinally(connected, exit)]
NoChat == [jid |-> None]

GetChat(chat_jid, include_last_message, fault) ==
    IF fault = "connect" THEN {ChatOrNone(NoChat, 0, FALSE, "error")}
    ELSE IF fault = "execute" THEN {ChatOrNone(NoChat, 1, TRUE, "error")}
    ELSE
    LET rows == {c \in chats : c.jid = chat_jid}
    IN  IF rows = {} THEN {ChatOrNone(NoChat, 1, TRUE, "not found")}
        ELSE {IF ChatOk(c)
              THEN ChatOrNone(MapChat(c, include_last_message), 1, TRUE, "return")
              ELSE Raised("ValueError", "fromisoformat", 1, "mapping") : c \in rows}

GetDirectChatByContact(sender_phone_number, fault) ==
    IF fault = "connect" THEN {ChatOrNone(NoChat, 0, FALSE, "error")}
    ELSE IF fault = "execute" THEN {ChatOrNone(NoChat, 1, TRUE, "error")}
    ELSE
    LET jids == {m.chat_jid : m \in {x \in messages : x.sender = sender_phone_number
                                                      /\ IsDirectJid(x.chat_jid)}}
    IN  IF jids = {} THEN {ChatOrNone(NoChat, 1, TRUE, "not found")}
        ELSE IF fault = "execute2" THEN {ChatOrNone(NoChat, 1, TRUE, "error")}
        ELSE UNION {
               IF {c \in chats : c.jid = jid} = {}
               THEN {ChatOrNone(NoChat, 1, TRUE, "not found")}
               ELSE {IF ChatOk(c)
                     THEN ChatOrNone(MapChat(c, TRUE), 1, TRUE, "return")
                     ELSE Raised("ValueError", "fromisoformat", 1, "mapping") :
                        c \in {x \in chats : x.jid = jid}}
               : jid \in jids }

\* A str returned by get_last_interaction: an error or not-found notice, or one
\* formatted line.
Notice(what, opened, connected, exit) ==
    [kind |-> "str", notice |-> what, text |-> <<>>, opened |-> opened,
     closed |-> CloseInFinally(connected, exit)]

\* fault is a Fault record: the lookup of the sender name is a nested call.
GetLastInteraction(jid, fault) ==
    IF SiteOf(fault, "get_last_interaction", 1) = "connect"
    THEN {Notice("Error getting last interaction", 0, FALSE, "error")}
    ELSE IF SiteOf(fault, "get_last_interaction", 1) = "execute"
    THEN {Notice("Error getting last interaction", 1, TRUE, "error")}
    ELSE
    LET matched == {m \in messages : m.sender = jid \/ m.chat_jid = jid}
        fetched == {SqlLimit(p, 1, 0) :
                        p \in OrderBy(matched, [m \in matched |-> ListRank(m)])}
    IN  UNION {
          IF rows = <<>> THEN {Notice("No messages found", 1, TRUE, "not found")}
          ELSE IF ~RowsOk(rows)
          THEN {[kind |-> "ValueError", detail |-> "fromisoformat", opened |-> 1,
                 closed |-> CloseInFinally(TRUE, "mapping")]}
          ELSE {[kind |-> "str", notice |-> "none", text |-> <<f.line>>,
                 opened |-> 1 + f.opened,
                 closed |-> f.closed + CloseInFinally(TRUE, "return")] :
                   f \in FormatMessage(
                           [MapRow(rows[1]) EXCEPT !.chat_jid = jid, !.id = "",
                                                   !.media_type = None],
                           SiteOf(fault, "get_sender_name", 1))}
          : rows \in fetched }

NoCall == [op |-> "none"]
NoRet == [kind |-> "none", opened |-> 0, closed |-> 0]
NoPager == [op |-> "none"]

----------------------------------------------------------------------------
\* The bridge, sole writer of the store: it stores one message and the time
\* of the most recent message of its chat (it leaves the other columns of the
\* summary NULL).

UpsertChat(m) ==
    IF \E c \in chats : c.jid = m.chat_jid /\ c.last_message_time >= m.timestamp
    THEN chats
    ELSE {c \in chats : c.jid # m.chat_jid} \cup
         {ChatRow(m.chat_jid, BridgeChatName(m.chat_jid), m.timestamp, None, None, None)}

BridgeStoreMessage(U) ==
    /\ call = NoCall
    /\ Cardinality(messages) < MaxMsgs
    /\ \E m \in U :
        /\ ~\E x \in messages : x.chat_jid = m.chat_jid /\ x.id = m.id
        /\ messages' = messages \cup {m}
        /\ chats' = UpsertChat(m)
    /\ UNCHANGED <<contacts, call, ret, conns, pager, processors, returned>>

----------------------------------------------------------------------------
\* templates/python-project/src/main.py: DataProcessor.
\*
\* An item of the input list is a record: an int (a bool is an int), a str
\* given by its text, None, or a value of another type (a list).  A float is
\* a number of the model; Huge is an int beyond the range of a float.

Instances == {"p1", "p2"}

IntItem(n) == [type |-> "int", v |-> n]
BoolItem(b) == [type |-> "bool", v |-> b]
StrItem(text) == [type |-> "str", v |-> text]
FloatItem(x) == [type |-> "float", v |-> x]
NoneItem == [type |-> "NoneType", v |-> None]
ListItem == [type |-> "list", v |-> None]
\* The largest float, and an int beyond it (10**400 in Python).
FloatMax == 1000
Huge == FloatMax + 1

\* float(item) of a str: the number the text spells (blanks around it are
\* stripped), or ValueError.
FloatOfStr(text) ==
    CASE text = "2" -> [kind |-> "float", v |-> 2]
      [] text = " 3 " -> [kind |-> "float", v |-> 3]
      [] OTHER -> [kind |-> "ValueError", v |-> None]

\* float(item) of an int or a bool: an int too large for a float raises
\* OverflowError.
FloatOfInt(item) ==
    IF item.type = "bool" THEN [kind |-> "float", v |-> IF item.v THEN 1 ELSE 0]
    ELSE IF item.type = "int" /\ item.v > FloatMax
    THEN [kind |-> "OverflowError", v |-> None]
    ELSE [kind |-> "float", v |-> item.v]

\* _process_single_item: a float, None, or the exception raised.
ProcessSingleItem(item) ==
    IF item.type = "NoneType" THEN [kind |-> "None", v |-> None]
    ELSE IF item.type \in {"int", "bool", "float"} THEN FloatOfInt(item)
    ELSE IF item.type = "str" THEN FloatOfStr(item.v)
    ELSE [kind |-> "TypeError", v |-> None]

\* The for loop of process_items from the item at index i (counted from 0) on:
\* ValueError and TypeError are recorded, any other exception leaves the loop.
RECURSIVE ProcessFrom(_, _, _, _, _)
ProcessFrom(items, i, total, valid_items, errors) ==
    IF i >= Len(items)
    THEN [kind |-> "dict", total |-> total, count |-> Len(valid_items),
          valid_items |-> valid_items, errors |-> errors]
    ELSE LET item == items[i + 1]
             processed_item == ProcessSingleItem(item)
         IN  IF processed_item.kind = "float"
             THEN ProcessFrom(items, i + 1, total + processed_item.v,
                              Append(valid_items, processed_item.v), errors)
             ELSE IF processed_item.kind = "None"
             THEN ProcessFrom(items, i + 1, total, valid_items, errors)
             ELSE IF processed_item.kind \in {"ValueError", "TypeError"}
             THEN ProcessFrom(items, i + 1, total, valid_items,
                              Append(errors, [index |-> i, item |-> item,
                                              error |-> processed_item.kind]))
             ELSE [kind |-> processed_item.kind]

\* The argument of process_items: a list, or None.
ListArg(seq) == [type |-> "list", v |-> seq]
NoneArg == [type |-> "NoneType", v |-> <<>>]

\* if not items: None and the empty list are falsy.
IsNoneOnly(items) == items.type = "NoneType"
NotItems(items) == items.type = "NoneType" \/ Len(items.v) = 0

\* process_items(items): what the call returns or raises.
ProcessItems(items) ==
    IF NotItems(items)
    THEN [kind |-> "ApplicationError", error_code |-> "INVALID_INPUT",
          details |-> [items_length |-> 0]]
    ELSE ProcessFrom(items.v, 0, 0, <<>>, <<>>)

\* self._processed_count += len(valid_items), reached when the loop ends.
ProcessedCount(count, result) ==
    IF result.kind = "dict" THEN count + Len(result.valid_items) ELSE count

----------------------------------------------------------------------------
\* Calls.  One caller: a call is made when no result is pending, it runs to
\* its end in one step, and the caller takes the result before the next event.

Finish(c, out) ==
    /\ call = NoCall
    /\ call' = c
    /\ ret' = out
    /\ conns' = conns + out.opened - out.closed

TakeResult ==
    /\ call # NoCall
    /\ call' = NoCall
    /\ ret' = NoRet
    /\ UNCHANGED <<messages, chats, contacts, conns, pager, processors, returned>>

GetMessageContextCall ==
    /\ call = NoCall
    /\ \E id \in Ids, b \in 0..MaxCount, a \in 0..MaxCount, f \in ContextFaults :
         /\ f # "none" => b = MaxCount /\ a = MaxCount
         /\ \E out \in GetMessageContext(id, b, a, f) :
              Finish([op |-> "get_message_context", message_id |-> id,
                      before |-> b, after |-> a, fault |-> f], out)
    /\ UNCHANGED <<messages, chats, contacts, pager, processors, returned>>

ListArgs(after, before, sender, jid, query, limit, page, ctx, cb, ca) ==
    [after |-> after, before |-> before, sender_phone_number |-> sender,
     chat_jid |-> jid, query |-> query, limit |-> limit, page |-> page,
     include_context |-> ctx, context_before |-> cb, context_after |-> ca]

\* Calls is a set of [a: arguments, fault: the store failure during the call].
ListMessagesCall(Calls) ==
    /\ call = NoCall
    /\ \E c \in Calls :
         \E out \in ListMessages(c.a, c.fault) :
            Finish([op |-> "list_messages", a |-> c.a, fault |-> c.fault], out)
    /\ UNCHANGED <<messages, chats, contacts, pager, processors, returned>>

\* Calls of the directory queries; Calls is a set of argument records.
ListChatsCall(Calls) ==
    /\ call = NoCall
    /\ \E c \in Calls :
         \E out \in ListChats(c.query, c.limit, c.page, c.include_last_message,
                              c.sort_by, c.fault) :
            Finish([op |-> "list_chats", a |-> c], out)
    /\ UNCHANGED <<messages, chats, contacts, pager, processors, returned>>

SearchContactsCall(Calls) ==
    /\ call = NoCall
    /\ \E c \in Calls :
         \E out \in SearchContacts(c.query, c.fault) :
            Finish([op |-> "search_contacts", a |-> c], out)
    /\ UNCHANGED <<messages, chats, contacts, pager, processors, returned>>

GetContactChatsCall(Calls) ==
    /\ call = NoCall
    /\ \E c \in Calls :
         \E out \in GetContactChats(c.jid, c.limit, c.page, c.fault) :
            Finish([op |-> "get_contact_chats", a |-> c], out)
    /\ UNCHANGED <<messages, chats, contacts, pager, processors, returned>>

GetLastInteractionCall(Calls) ==
    /\ call = NoCall
    /\ \E c \in Calls :
         \E out \in GetLastInteraction(c.jid, c.fault) :
            Finish([op |-> "get_last_interaction", a |-> c], out)
    /\ UNCHANGED <<messages, chats, contacts, pager, processors, returned>>

GetChatCall(Calls) ==
    /\ call = NoCall
    /\ \E c \in Calls :
         \E out \in GetChat(c.chat_jid, c.include_last_message, c.fault) :
            Finish([op |-> "get_chat", a |-> c], out)
    /\ UNCHANGED <<messages, chats, contacts, pager, processors, returned>>

GetDirectChatByContactCall(Calls) ==
    /\ call = NoCall
    /\ \E c \in Calls :
         \E out \in GetDirectChatByContact(c.sender_phone_number, c.fault) :
            Finish([op |-> "get_direct_chat_by_contact", a |-> c], out)
    /\ UNCHANGED <<messages, chats, contacts, pager, processors, returned>>

\* get_sender_name called on its own; the name it returns is the result.
GetSenderNameCallCaching(Calls) ==
    /\ call = NoCall
    /\ \E c \in Calls :
         \E out \in GetSenderName(c.sender_jid, c.fault) :
            /\ Finish([op |-> "get_sender_name", a |-> c],
                      [kind |-> "str", name |-> out.name, opened |-> out.opened,
                       closed |-> out.closed])
            /\ contacts' = contacts \cup {ContactRow(c.sender_jid, out.name, c.sender_jid)}
    /\ UNCHANGED <<messages, chats, pager, processors, returned>>
GetSenderNameCall(Calls) ==
    /\ call = NoCall
    /\ \E c \in Calls :
         \E out \in GetSenderName(c.sender_jid, c.fault) :
            Finish([op |-> "get_sender_name", a |-> c],
                   [kind |-> "str", name |-> out.name, opened |-> out.opened,
                    closed |-> out.closed])
    /\ UNCHANGED <<messages, chats, contacts, pager, processors, returned>>

\* The bridge records a chat before any of its messages is stored.
BridgeStoreChat(U) ==
    /\ call = NoCall
    /\ \E c \in U :
        /\ ~\E x \in chats : x.jid = c.jid
        /\ chats' = chats \cup {c}
    /\ UNCHANGED <<messages, contacts, call, ret, conns, pager, processors, returned>>

\* format_message(message) called on its own, on a message of the store.
FormatMessageCall ==
    /\ call = NoCall
    /\ \E m \in {x \in messages : RowOk(x)}, f \in {"none", "connect", "execute"} :
         \E out \in FormatMessage(MapRow(m), f) :
            Finish([op |-> "format_message", message |-> MapRow(m), fault |-> f],
                   [kind |-> "str", text |-> <<out.line>>, opened |-> out.opened,
                    closed |-> out.closed])
    /\ UNCHANGED <<messages, chats, contacts, pager, processors, returned>>

BridgeStoreContact(U) ==
    /\ call = NoCall
    /\ \E c \in U \ contacts : contacts' = contacts \cup {c}
    /\ UNCHANGED <<messages, chats, call, ret, conns, pager, processors, returned>>

----------------------------------------------------------------------------
\* Specification of get_message_context over a store of two chats; the id
\* "A1" is used in both.

ContextKeys == {<<GroupJid, "A1">>, <<GroupJid, "A2">>, <<GroupJid, "A3">>,
                <<DirectJid, "A1">>}
ContextUniverse ==
    {MessageRow(t, "91", <<"h", "i">>, FALSE, k[1], k[2], None) :
        k \in ContextKeys, t \in 0..MaxTs}

Init ==
    /\ messages = {}
    /\ chats = {}
    /\ contacts = {}
    /\ call = NoCall
    /\ ret = NoRet
    /\ conns = 0
    /\ pager = NoPager
    /\ processors = [p \in Instances |-> [_processed_count |-> 0]]
    /\ returned = [p \in Instances |-> <<>>]

BridgeStoreContext == BridgeStoreMessage(ContextUniverse)

NextContext == BridgeStoreContext \/ GetMessageContextCall \/ TakeResult
SpecContext == Init /\ [][NextContext]_vars

----------------------------------------------------------------------------
\* Properties of get_message_context (SpecContext).

IsContext == call.op = "get_message_context" /\ ret.kind = "MessageContext"

Timestamps(s) == [i \in 1..Len(s) |-> s[i].timestamp]
StrictlyAscending(ts) == \A i \in 1..Len(ts) - 1 : ts[i] < ts[i + 1]
Ascending(ts) == \A i \in 1..Len(ts) - 1 : ts[i] <= ts[i + 1]
AllBelow(ts, t) == \A i \in 1..Len(ts) : ts[i] < t
AllAbove(ts, t) == \A i \in 1..Len(ts) : ts[i] > t

\* C1 as stated: `before` is in strictly ascending timestamp order with every
\* timestamp below the target's, `after` is in strictly ascending order with
\* every timestamp above the target's, and neither is longer than requested.
C1_StrictlyAscendingWindows ==
    IsContext =>
        /\ StrictlyAscending(Timestamps(ret.before))
        /\ AllBelow(Timestamps(ret.before), ret.message.timestamp)
        /\ StrictlyAscending(Timestamps(ret.after))
        /\ AllAbove(Timestamps(ret.after), ret.message.timestamp)
        /\ Len(ret.before) <= call.before
        /\ Len(ret.after) <= call.after

\* C1 amended: the windows are in ascending (non-decreasing) timestamp order,
\* two messages of one chat may share a timestamp; every timestamp of `before`
\* is below the target's and every timestamp of `after` above it, and neither
\* window is longer than requested.
C1_AscendingWindows ==
    IsContext =>
        /\ Ascending(Timestamps(ret.before))
        /\ AllBelow(Timestamps(ret.before), ret.message.timestamp)
        /\ Ascending(Timestamps(ret.after))
        /\ AllAbove(Timestamps(ret.after), ret.message.timestamp)
        /\ Len(ret.before) <= call.before
        /\ Len(ret.after) <= call.after

\* A context with two messages before the target and one requested after it.
C1_Witness ==
    /\ IsContext
    /\ Len(ret.before) = 2
    /\ ret.before[1].timestamp < ret.before[2].timestamp

\* The stored messages of a chat below and above a timestamp, as entities.
ChatBelow(jid, t) ==
    {MapRow(m) : m \in {x \in messages : x.chat_jid = jid /\ x.timestamp < t}}
ChatAbove(jid, t) ==
    {MapRow(m) : m \in {x \in messages : x.chat_jid = jid /\ x.timestamp > t}}
Elements(s) == {s[i] : i \in 1..Len(s)}

\* C2: the windows are contiguous and drawn from the target's chat only:
\* `before` holds min(before_count, available) distinct messages of the
\* target's chat below the target, none of those left out is nearer to the
\* target than one included, oldest first; `after` likewise above the target.
C2_ContiguousWindows ==
    IsContext =>
        LET t == ret.message
            below == ChatBelow(t.chat_jid, t.timestamp)
            above == ChatAbove(t.chat_jid, t.timestamp)
            b == Elements(ret.before)
            a == Elements(ret.after)
        IN  /\ t.id = call.message_id
            /\ \E m \in messages : MapRow(m) = t
            /\ b \subseteq below
            /\ Cardinality(b) = Len(ret.before)
            /\ Len(ret.before) = Min(call.before, Cardinality(below))
            /\ \A x \in b, y \in below \ b : y.timestamp <= x.timestamp
            /\ Ascending(Timestamps(ret.before))
            /\ a \subseteq above
            /\ Cardinality(a) = Len(ret.after)
            /\ Len(ret.after) = Min(call.after, Cardinality(above))
            /\ \A x \in a, y \in above \ a : y.timestamp >= x.timestamp
            /\ Ascending(Timestamps(ret.after))

\* One message requested before the target while two are available: the nearer
\* one is returned; and a window shorter than requested.
C2_Witness ==
    /\ IsContext
    /\ call.before = 1
    /\ Cardinality(ChatBelow(ret.message.chat_jid, ret.message.timestamp)) = 2
    /\ call.after = 2
    /\ Len(ret.after) = 0

NoSuchMessage(id) == ~\E m \in messages : m.id = id
IsNotFound == ret.kind = "ValueError" /\ ret.detail = "not found"

\* C3: a call with an identifier no stored message has never returns a
\* MessageContext; unless the store fails first it raises the not-found error;
\* the not-found error is raised in no other case, and differs from the error
\* of a store failure and from a context with empty windows.
C3_NotFoundRaised ==
    call.op = "get_message_context" =>
        /\ NoSuchMessage(call.message_id) => ret.kind # "MessageContext"
        /\ NoSuchMessage(call.message_id) /\ call.fault \notin {"connect", "target"}
              => IsNotFound
        /\ IsNotFound => NoSuchMessage(call.message_id)
                          /\ call.fault \notin {"connect", "target"}
        /\ ret.kind = "sqlite3.Error" => call.fault # "none" /\ ~IsNotFound

\* The identifier is unknown in a store that holds other messages.
C3_Witness ==
    /\ call.op = "get_message_context"
    /\ IsNotFound
    /\ messages # {}

----------------------------------------------------------------------------
\* Specification of list_messages: three messages of different sender, chat
\* and content, each at any timestamp, and four families of calls.

ListUniverse ==
    UNION {{MessageRow(t, "91", <<"a", "b">>, FALSE, GroupJid, "A1", None),
            MessageRow(t, "92", <<"A">>, TRUE, GroupJid, "A2", None),
            MessageRow(t, "91", <<"_">>, FALSE, DirectJid, "A1", "image")} :
           t \in 1..MaxTs}

NoFilter(limit, page, ctx, cb, ca) ==
    ListArgs(NoneTime, NoneTime, None, None, NoneText, limit, page, ctx, cb, ca)
Unfaulted(Args) == {[a |-> a, fault |-> NoFault] : a \in Args}

\* Time bounds, with and without context.
BoundArgs ==
    {[NoFilter(DefaultLimit, 0, ic, DefaultContext, DefaultContext)
        EXCEPT !.after = af, !.before = bf] :
        af \in {NoneTime, IsoTime(" ", 2), IsoTime("T", 2)},
        bf \in {NoneTime, IsoTime(" ", 2), IsoTime("T", 3)}, ic \in BOOLEAN}

\* Every combination of criteria.
Queries == {NoneText, <<>>, <<"a">>, <<"_">>}
CriteriaArgs ==
    {[NoFilter(DefaultLimit, 0, FALSE, DefaultContext, DefaultContext)
        EXCEPT !.after = af, !.before = bf, !.sender_phone_number = s,
               !.chat_jid = j, !.query = q] :
        af \in {NoneTime, IsoTime("T", 1)}, bf \in {NoneTime, IsoTime("T", 3)},
        s \in {None, "", "91"}, j \in {None, DirectJid}, q \in Queries}

\* Time bounds of every form, with the store reachable or not.
TimeArgs == {NoneTime, EmptyTime, BadTime, IsoTime(" ", 2), IsoTime("T", 2)}
TimeFormCalls ==
    {[a |-> [NoFilter(DefaultLimit, 0, FALSE, DefaultContext, DefaultContext)
                EXCEPT !.after = af, !.before = bf],
      fault |-> f] :
        af \in TimeArgs, bf \in TimeArgs,
        f \in {NoFault, Fault("list_messages", "connect", 1)}}

\* Context windows of every size around the matches.
ContextArgs ==
    {[NoFilter(DefaultLimit, 0, TRUE, cb, ca) EXCEPT !.chat_jid = j] :
        cb \in 0..MaxCount, ca \in 0..MaxCount, j \in {None, DirectJid}}

BridgeStoreList == BridgeStoreMessage(ListUniverse)
ListMessagesBounds == ListMessagesCall(Unfaulted(BoundArgs))
ListMessagesCriteria == ListMessagesCall(Unfaulted(CriteriaArgs))
ListMessagesTimeForms == ListMessagesCall(TimeFormCalls)
ListMessagesContext == ListMessagesCall(Unfaulted(ContextArgs))

NextList ==
    \/ BridgeStoreList
    \/ ListMessagesBounds
    \/ ListMessagesCriteria
    \/ ListMessagesTimeForms
    \/ ListMessagesContext
    \/ TakeResult
SpecList == Init /\ [][NextList]_vars

----------------------------------------------------------------------------
\* Properties of list_messages (SpecList).

IsListing == call.op = "list_messages" /\ ret.kind = "str"
\* A time bound that reached the query.
Supplied(arg) == arg.form \in {" ", "T"}
LinesAt(t) == {i \in 1..Len(ret.text) : ret.text[i] # NoMessagesLine /\ ret.text[i].time = t}

\* No two chats hold messages of the same id.
IdsUnique == \A x \in messages, y \in messages : x.id = y.id => x = y

\* C4 as stated: whatever the other arguments, no message at the timestamp of
\* a supplied `after` or `before` bound appears in the returned text (read here
\* on the stores whose ids are unique, where every context is the context of
\* the match itself).
C4_NoBoundaryMessageReturned ==
    (IsListing /\ IdsUnique) =>
        /\ Supplied(call.a.after) => LinesAt(call.a.after.t) = {}
        /\ Supplied(call.a.before) => LinesAt(call.a.before.t) = {}

\* C4 amended: no message at the timestamp of a supplied bound is among the
\* messages the call matches (every match is strictly after `after` and
\* strictly before `before`), and without context none appears in the returned
\* text; with context one may appear as a neighbour of a match.
C4_NoBoundaryMessageMatched ==
    IsListing =>
        /\ \A i \in 1..Len(ret.result) :
            /\ Supplied(call.a.after) => ret.result[i].timestamp > call.a.after.t
            /\ Supplied(call.a.before) => ret.result[i].timestamp < call.a.before.t
        /\ ~call.a.include_context =>
            /\ Supplied(call.a.after) => LinesAt(call.a.after.t) = {}
            /\ Supplied(call.a.before) => LinesAt(call.a.before.t) = {}

\* A message lies exactly at the `after` bound while later ones are returned.
C4_Witness ==
    /\ IsListing
    /\ Supplied(call.a.after)
    /\ ~call.a.include_context
    /\ \E m \in messages : m.timestamp = call.a.after.t
    /\ ret.result # <<>>

\* text contains query, ignoring case.
Contains(text, query) ==
    \E i \in 0..Len(text) - Len(query) :
        LowerText(SubSeq(text, i + 1, i + Len(query))) = LowerText(query)

\* The conjunction of the criteria that are supplied (not None, not empty).
Satisfies(m, a) ==
    /\ Supplied(a.after) => m.timestamp > a.after.t
    /\ Supplied(a.before) => m.timestamp < a.before.t
    /\ Truthy(a.sender_phone_number) => m.sender = a.sender_phone_number
    /\ Truthy(a.chat_jid) => m.chat_jid = a.chat_jid
    /\ TruthyText(a.query) => Contains(m.content, a.query)

\* C5: the matched messages are exactly the stored messages that satisfy every
\* supplied criterion (read off a page large enough to hold them all).
C5_MatchesAreConjunction ==
    (IsListing /\ call.a.page = 0 /\ call.a.limit >= Cardinality(messages)) =>
        Elements(ret.result) = {MapRow(m) : m \in {x \in messages : Satisfies(x, call.a)}}

\* What holds of the matches when the query holds no LIKE wildcard.
HasWildcard(query) == \E i \in 1..Len(query) : query[i] \in {"%", "_"}
C5_MatchesAreConjunctionNoWildcard ==
    (IsListing /\ (TruthyText(call.a.query) => ~HasWildcard(call.a.query)))
        => C5_MatchesAreConjunction

\* A time bound argument that is a str no timestamp can be read from.
Unparsable(arg) == arg.form \in {"empty", "bad"}

\* C6: whenever `after` or `before` is a string that cannot be parsed as a
\* timestamp, the call raises the validation error naming that field and the
\* string.
C6_UnparsableBoundRejected ==
    call.op = "list_messages" =>
        /\ Unparsable(call.a.after) =>
              ret.kind = "ValueError" /\ ret.detail = "Invalid date format"
              /\ ret.field = "after" /\ ret.value = call.a.after
        /\ (~Unparsable(call.a.after) /\ Unparsable(call.a.before)) =>
              ret.kind = "ValueError" /\ ret.detail = "Invalid date format"
              /\ ret.field = "before" /\ ret.value = call.a.before

\* What holds of an unparsable bound: a non-empty one is rejected once the
\* connection is open.
C6_NonEmptyBoundRejectedWhenConnected ==
    (call.op = "list_messages" /\ SiteOf(call.fault, "list_messages", 1) # "connect") =>
        /\ call.a.after = BadTime =>
              ret.kind = "ValueError" /\ ret.field = "after" /\ ret.value = call.a.after
        /\ (call.a.after # BadTime /\ call.a.before = BadTime) =>
              ret.kind = "ValueError" /\ ret.field = "before" /\ ret.value = call.a.before
        /\ ret.kind = "ValueError" => BadTime \in {call.a.after, call.a.before}

\* The window of a match: the match itself with its neighbours in its chat.
IsWindowOf(c, m) ==
    /\ c.message = m
    /\ Elements(c.before) \subseteq ChatBelow(m.chat_jid, m.timestamp)
    /\ Elements(c.after) \subseteq ChatAbove(m.chat_jid, m.timestamp)
    /\ Len(c.before) = Min(call.a.context_before,
                           Cardinality(ChatBelow(m.chat_jid, m.timestamp)))
    /\ Len(c.after) = Min(call.a.context_after,
                          Cardinality(ChatAbove(m.chat_jid, m.timestamp)))

\* The lines of the text are the messages of the windows, in turn.
TextOf(msgs) ==
    /\ Len(ret.text) = Len(msgs)
    /\ \A k \in 1..Len(msgs) :
        /\ ret.text[k].time = msgs[k].timestamp
        /\ ret.text[k].content = msgs[k].content
        /\ ret.text[k].chat = msgs[k].chat_name
        /\ ret.text[k].who \in {"You", msgs[k].sender}

\* C9: with context requested and matches m1..mn, the output is before(mi),
\* mi, after(mi) for i = 1..n in that order, each its own window around mi in
\* the chat of mi, nothing removed where windows overlap.
C9_WindowPerMatch ==
    (IsListing /\ call.a.include_context /\ ret.result # <<>>) =>
        /\ Len(ret.contexts) = Len(ret.result)
        /\ \A i \in 1..Len(ret.result) : IsWindowOf(ret.contexts[i], ret.result[i])
        /\ TextOf(Flatten(ret.contexts))

\* What holds of the expansion in stores where no two chats share an id.
C9_WindowPerMatchUniqueIds == IdsUnique => C9_WindowPerMatch

----------------------------------------------------------------------------
\* A caller paging through one listing: it asks for page 0, 1, 2, ... with
\* the same arguments and appends what each call returns to what it has.
\* The listing is list_messages without context, list_chats, or
\* get_contact_chats; the bridge does not write while the caller pages.

PagesUniverse ==
    UNION {{MessageRow(t, "91", <<"a">>, FALSE, GroupJid, "A1", None),
            MessageRow(t, "91", <<"b">>, FALSE, DirectJid, "A2", None),
            MessageRow(t, "92", <<"c">>, FALSE, OtherJid, "A3", None)} :
           t \in 1..MaxTs}

Listings ==
    {[op |-> "list_messages", sort_by |-> None],
     [op |-> "list_chats", sort_by |-> "last_active"],
     [op |-> "list_chats", sort_by |-> "name"],
     [op |-> "get_contact_chats", sort_by |-> None]}

\* The calls of listing l for the page `page` of size `limit`.
ListingCall(l, limit, page) ==
    IF l.op = "list_messages"
    THEN ListMessages(NoFilter(limit, page, FALSE, 0, 0), NoFault)
    ELSE IF l.op = "list_chats"
    THEN ListChats(NoneText, limit, page, TRUE, l.sort_by, "none")
    ELSE GetContactChats("91", limit, page, "none")

\* What the caller holds of a call's result: the text, or the list.
Returned(out) == IF out.kind = "str" THEN out.text ELSE out.value

PagerStart ==
    /\ pager = NoPager
    /\ call = NoCall
    /\ \E l \in Listings, limit \in 1..MaxLimit :
         pager' = [op |-> l.op, sort_by |-> l.sort_by, limit |-> limit,
                   next |-> 0, acc |-> <<>>]
    /\ UNCHANGED <<messages, chats, contacts, call, ret, conns, processors, returned>>

PagerFetch(op) ==
    /\ pager.op = op
    /\ pager.next <= MaxPage
    /\ \E out \in ListingCall(pager, pager.limit, pager.next) :
         /\ pager' = [pager EXCEPT !.next = @ + 1, !.acc = @ \o Returned(out)]
         /\ conns' = conns + out.opened - out.closed
    /\ UNCHANGED <<messages, chats, contacts, call, ret, processors, returned>>

PagerListMessages == PagerFetch("list_messages")
PagerListChats == PagerFetch("list_chats")
PagerGetContactChats == PagerFetch("get_contact_chats")

PagerEnd ==
    /\ pager # NoPager
    /\ pager' = NoPager
    /\ UNCHANGED <<messages, chats, contacts, call, ret, conns, processors, returned>>

BridgeStorePages == pager = NoPager /\ BridgeStoreMessage(PagesUniverse)

NextPages ==
    \/ BridgeStorePages
    \/ PagerStart
    \/ PagerListMessages
    \/ PagerListChats
    \/ PagerGetContactChats
    \/ PagerEnd
SpecPages == Init /\ [][NextPages]_vars

----------------------------------------------------------------------------
\* Properties of pagination (SpecPages).

Paging == pager # NoPager /\ pager.next >= 1

\* The sort key of the listing has no ties among the rows of the store.
NoTies ==
    IF pager.op = "list_messages"
    THEN \A x \in messages, y \in messages : x.timestamp = y.timestamp => x = y
    ELSE IF pager.op = "list_chats" /\ pager.sort_by = "name"
    THEN \A x \in chats, y \in chats : x.name = y.name => x = y
    ELSE \A x \in chats, y \in chats :
            x.last_message_time = y.last_message_time => x = y

\* What one call with limit * (k + 1) at page 0 returns, pages 0..k fetched.
Whole == {Returned(out) : out \in ListingCall(pager, pager.limit * pager.next, 0)}

\* C7: with no writes in between and a sort key with no ties, the results of
\* pages 0..k of a listing call, concatenated, are the result of one call with
\* limit * (k + 1) at page 0.
C7_PagesConcatenate == Paging /\ NoTies => Whole = {pager.acc}

\* What holds instead: the law holds of the two listings that return lists,
\* and of list_messages as long as no page fetched is empty (the text of an
\* empty page is the notice "No messages to display.").
C7_ChatPagesConcatenate ==
    Paging /\ NoTies /\ pager.op # "list_messages" => Whole = {pager.acc}
C7_MessagePagesConcatenate ==
    Paging /\ NoTies /\ pager.op = "list_messages"
           /\ Cardinality(messages) > pager.limit * (pager.next - 1)
        => Whole = {pager.acc}
\* A listing of three chats fetched in three pages of one.
C7_ChatPagesReached ==
    Paging /\ NoTies /\ pager.op # "list_messages" /\ pager.limit = 1
           /\ pager.next = 3 /\ Len(pager.acc) = 3

----------------------------------------------------------------------------
\* The page size of the listings (SpecFetch).  The store holds n rows that
\* match the call, n up to MaxRows; the rows are numbered in the order of the
\* ORDER BY, and the call fetches the rows its LIMIT ? OFFSET ? selects.

\* The hard maximum of the page size.
HardCap == 100

Candidates(n) == [i \in 1..n |-> i]
FetchLimits == {-1, 0, 1, DefaultLimit, HardCap, HardCap + 1}

\* offset = page * limit; params.extend([limit, offset]); fetchall()
FetchPage(op) ==
    /\ call = NoCall
    /\ \E n \in 0..MaxRows, limit \in FetchLimits, page \in 0..1 :
         Finish([op |-> op, limit |-> limit, page |-> page, candidates |-> n],
                [kind |-> "rows",
                 fetched |-> SqlLimit(Candidates(n), limit, page * limit),
                 opened |-> 1, closed |-> CloseInFinally(TRUE, "return")])
    /\ UNCHANGED <<messages, chats, contacts, pager, processors, returned>>

FetchListMessages == FetchPage("list_messages")
FetchListChats == FetchPage("list_chats")
FetchGetContactChats == FetchPage("get_contact_chats")

\* ORDER BY name ASC LIMIT 50 of search_contacts, of n contacts that match.
FetchSearchContacts ==
    /\ call = NoCall
    /\ \E n \in 0..MaxRows :
         Finish([op |-> "search_contacts", limit |-> SearchLimit, page |-> 0,
                 candidates |-> n],
                [kind |-> "rows", fetched |-> SqlLimit(Candidates(n), SearchLimit, 0),
                 opened |-> 1, closed |-> CloseInFinally(TRUE, "return")])
    /\ UNCHANGED <<messages, chats, contacts, pager, processors, returned>>

NextFetch ==
    \/ FetchListMessages
    \/ FetchListChats
    \/ FetchGetContactChats
    \/ FetchSearchContacts
    \/ TakeResult
SpecFetch == Init /\ [][NextFetch]_vars

\* C8: for any requested limit, one call of a listing operation fetches at
\* most 100 rows from the store.
C8_FetchesAtMostHardCap == ret.kind = "rows" => Len(ret.fetched) <= HardCap

\* What the code does: a call fetches the `limit` rows from its offset on,
\* whatever the limit, and every row from the offset on when the limit is
\* negative.
C8_FetchesThePage ==
    ret.kind = "rows" =>
        ret.fetched = [i \in 1..(IF call.limit < 0 THEN call.candidates
                                 ELSE Min(call.limit,
                                          Max(0, call.candidates - call.page * call.limit)))
                          |-> i + Max(0, call.page * call.limit)]

----------------------------------------------------------------------------
\* Every store-reading operation, with store failures, rows whose timestamp
\* does not parse, and a contact (SpecConn).

ConnUniverse ==
    UNION {{MessageRow(t, "91", <<"a">>, FALSE, GroupJid, "A1", None),
            MessageRow(t, "92", <<"b">>, FALSE, GroupJid, "A2", None)} : t \in {0, 2}}
    \cup {MessageRow(1, "91", <<"c">>, FALSE, DirectJid, "A3", None)}
ConnContacts == {ContactRow("91", "Ana", DirectJid)}

Sites == {"none", "connect", "execute"}
NestedFaults ==
    {Fault("get_message_context", at, k) : at \in ContextFaults \ {"none"}, k \in 1..2}
    \cup {Fault("get_sender_name", at, k) : at \in Sites \ {"none"}, k \in 1..2}
ListFaults ==
    {NoFault} \cup {Fault("list_messages", at, 1) : at \in Sites \ {"none"}}

ConnListCalls ==
    {[a |-> [NoFilter(DefaultLimit, 0, ic, DefaultContext, DefaultContext)
                EXCEPT !.after = af],
      fault |-> f] :
        af \in {NoneTime, BadTime, IsoTime("T", 1)}, ic \in BOOLEAN, f \in ListFaults}
    \cup {[a |-> NoFilter(DefaultLimit, 0, TRUE, DefaultContext, DefaultContext),
           fault |-> f] : f \in NestedFaults}

BridgeStoreConn == BridgeStoreMessage(ConnUniverse)
BridgeStoreContactConn == BridgeStoreContact(ConnContacts)
ListMessagesConn == ListMessagesCall(ConnListCalls)
ListChatsConn ==
    ListChatsCall({[query |-> q, limit |-> DefaultLimit, page |-> 0,
                    include_last_message |-> TRUE, sort_by |-> sb, fault |-> f] :
                    q \in {NoneText, <<"t">>}, sb \in {"last_active", "name", "size"},
                    f \in Sites})
SearchContactsConn ==
    SearchContactsCall({[query |-> q, fault |-> f] : q \in {<<"a">>, <<"9">>}, f \in Sites})
GetContactChatsConn ==
    GetContactChatsCall({[jid |-> j, limit |-> DefaultLimit, page |-> 0, fault |-> f] :
                            j \in {"91", GroupJid}, f \in Sites})
GetLastInteractionConn ==
    GetLastInteractionCall(
        {[jid |-> j, fault |-> f] :
            j \in {"91", "92", OtherJid},
            f \in {NoFault} \cup {Fault(fn, at, 1) :
                                    fn \in {"get_last_interaction", "get_sender_name"},
                                    at \in Sites \ {"none"}}})
GetChatConn ==
    GetChatCall({[chat_jid |-> j, include_last_message |-> il, fault |-> f] :
                    j \in {GroupJid, OtherJid}, il \in BOOLEAN, f \in Sites})
GetDirectChatByContactConn ==
    GetDirectChatByContactCall({[sender_phone_number |-> s, fault |-> f] :
                                    s \in {"91", "92"}, f \in Sites \cup {"execute2"}})
GetSenderNameConn ==
    GetSenderNameCall({[sender_jid |-> s, fault |-> f] : s \in {"91", "92"}, f \in Sites})

NextConn ==
    \/ BridgeStoreConn
    \/ BridgeStoreContactConn
    \/ ListMessagesConn
    \/ GetMessageContextCall
    \/ ListChatsConn
    \/ SearchContactsConn
    \/ GetContactChatsConn
    \/ GetLastInteractionConn
    \/ GetChatConn
    \/ GetDirectChatByContactConn
    \/ GetSenderNameConn
    \/ TakeResult
SpecConn == Init /\ [][NextConn]_vars

\* C10: after a store-reading operation returns or raises, on whatever exit
\* path, as many connections are open as before the call, the connections of
\* nested calls included: the call closed every connection it opened.
C10_ConnectionsReleased == conns = 0 /\ ret.opened = ret.closed

\* A validation error, a row-mapping error raised by a nested call, and a
\* store failure inside a nested call.
C10_Witness ==
    /\ call.op = "list_messages" /\ ret.kind = "ValueError"
    /\ ret.detail = "fromisoformat" /\ ret.opened >= 2
    /\ conns = 0

\* The exits the operations take in this specification.
C10_ValidationExit ==
    call.op = "list_messages" /\ ret.kind = "ValueError"
        /\ ret.detail = "Invalid date format" /\ ret.opened = 1
C10_NestedFailureExit ==
    call.op = "list_messages" /\ ret.kind = "list" /\ ret.opened >= 2
C10_NotFoundExit ==
    call.op = "get_direct_chat_by_contact" /\ ret.value = NoChat /\ ret.opened = 1
        /\ call.a.fault = "none"
C10_FormattedExit ==
    call.op = "get_last_interaction" /\ ret.kind = "str" /\ ret.opened = 2

----------------------------------------------------------------------------
\* Frame of the query operations (SpecConn).

\* C11: the query operations only read: a step in which a call is made or its
\* result is taken, whether the call succeeded or failed, leaves the tables
\* messages, chats and contacts as they were; only the bridge changes them.
C11_QueriesOnlyRead == [][call' # call => store' = store]_vars

\* A query returned chats from a store that holds messages and a contact.
C11_Witness ==
    /\ call.op = "get_contact_chats" /\ ret.kind = "list" /\ ret.value # <<>>
    /\ contacts # {}

----------------------------------------------------------------------------
\* Store failures (SpecConn).

\* The store access of the call, or of a nested get_message_context call,
\* that was set to fail ("none": no such access).
FailingSite ==
    IF call.op = "list_messages"
    THEN IF call.fault.fn \in {"list_messages", "get_message_context"}
         THEN call.fault.at ELSE "none"
    ELSE IF call.op = "get_message_context" THEN call.fault
    ELSE IF call.op = "get_last_interaction"
    THEN IF call.a.fault.fn = "get_last_interaction" THEN call.a.fault.at ELSE "none"
    ELSE IF call.op \in {"none", "get_sender_name"} THEN "none"
    ELSE call.a.fault

\* What the call returns or raises when no store access fails.
Unfailing ==
    CASE call.op = "list_messages" -> ListMessages(call.a, NoFault)
      [] call.op = "get_message_context" ->
            GetMessageContext(call.message_id, call.before, call.after, "none")
      [] call.op = "list_chats" ->
            ListChats(call.a.query, call.a.limit, call.a.page,
                      call.a.include_last_message, call.a.sort_by, "none")
      [] call.op = "search_contacts" -> SearchContacts(call.a.query, "none")
      [] call.op = "get_contact_chats" ->
            GetContactChats(call.a.jid, call.a.limit, call.a.page, "none")
      [] call.op = "get_chat" ->
            GetChat(call.a.chat_jid, call.a.include_last_message, "none")
      [] call.op = "get_direct_chat_by_contact" ->
            GetDirectChatByContact(call.a.sender_phone_number, "none")
      [] call.op = "get_last_interaction" -> GetLastInteraction(call.a.jid, NoFault)
      [] OTHER -> {}

\* A result but for the connections counted.
Uncounted(out) == [out EXCEPT !.opened = 0, !.closed = 0]

\* The empty result, not-found, or explicit failure of the operation.
IsFailure ==
    CASE call.op \in {"list_messages", "list_chats", "search_contacts",
                      "get_contact_chats"} ->
            ret.kind = "list" /\ ret.value = <<>>
      [] call.op \in {"get_chat", "get_direct_chat_by_contact"} ->
            ret.kind = "Optional[Chat]" /\ ret.value = NoChat
      [] call.op = "get_message_context" -> ret.kind = "sqlite3.Error"
      [] call.op = "get_last_interaction" ->
            ret.kind = "str" /\ ret.notice = "Error getting last interaction"
      [] OTHER -> FALSE

----------------------------------------------------------------------------
\* Outbound operations: send_message, send_file, send_audio_message and
\* download_media post a request to the bridge (SpecOutbound).
\*
\* What requests.post meets is a record: `transport` FALSE when the request
\* raises requests.RequestException, else the status code and the body.  A
\* body is [parse, has_success, success, has_message]: parse is "error" when
\* it is not JSON, "list" when it is JSON but no object, "object" otherwise.

Body(parse, has_success, success, has_message) ==
    [parse |-> parse, has_success |-> has_success, success |-> success,
     has_message |-> has_message]
Bodies ==
    {Body("error", FALSE, FALSE, FALSE), Body("list", FALSE, FALSE, FALSE)}
    \cup {Body("object", hs, sc, hm) : hs \in BOOLEAN, sc \in BOOLEAN, hm \in BOOLEAN}
Responses ==
    {[transport |-> FALSE, status_code |-> 0, body |-> Body("error", FALSE, FALSE, FALSE)]}
    \cup {[transport |-> TRUE, status_code |-> sc, body |-> b] :
            sc \in {200, 500}, b \in Bodies}

\* return False, reason  /  return result.get("success", False), result.get("message", ...)
Tuple(ok, reason) ==
    [kind |-> "tuple", success |-> ok, reason |-> reason, opened |-> 0, closed |-> 0]

\* result.get("success", False)
SuccessOf(body) == IF body.has_success THEN body.success ELSE FALSE
\* result.get("message", "Unknown response")
MessageOf(body) == IF body.has_message THEN "message of the body" ELSE "Unknown response"

\* response = requests.post(url, json=payload) and what follows it in the
\* three send operations.  response.json() on a body that is not JSON raises
\* a JSONDecodeError, which is a requests.RequestException or not with the
\* version of the library.
PostSend(response) ==
    IF ~response.transport THEN {Tuple(FALSE, "Request error")}
    ELSE IF response.status_code # 200 THEN {Tuple(FALSE, "Error: HTTP")}
    ELSE IF response.body.parse = "error"
    THEN {Tuple(FALSE, "Request error"), Tuple(FALSE, "Error parsing response")}
    ELSE IF response.body.parse = "list" THEN {Tuple(FALSE, "Unexpected error")}
    ELSE {Tuple(SuccessOf(response.body), MessageOf(response.body))}

SendMessage(recipient, response) ==
    IF ~Truthy(recipient) THEN {Tuple(FALSE, "Recipient must be provided")}
    ELSE PostSend(response)

\* isfile: os.path.isfile(media_path)
SendFile(recipient, media_path, isfile, response) ==
    IF ~Truthy(recipient) THEN {Tuple(FALSE, "Recipient must be provided")}
    ELSE IF ~Truthy(media_path) THEN {Tuple(FALSE, "Media path must be provided")}
    ELSE IF ~isfile THEN {Tuple(FALSE, "Media file not found")}
    ELSE PostSend(response)

\* is_ogg: media_path.endswith(".ogg"); converts: audio.convert_to_opus_ogg_temp
\* returns (it raises otherwise).
SendAudioMessage(recipient, media_path, isfile, is_ogg, converts, response) ==
    IF ~Truthy(recipient) THEN {Tuple(FALSE, "Recipient must be provided")}
    ELSE IF ~Truthy(media_path) THEN {Tuple(FALSE, "Media path must be provided")}
    ELSE IF ~isfile THEN {Tuple(FALSE, "Media file not found")}
    ELSE IF ~is_ogg /\ ~converts
    THEN {Tuple(FALSE, "Error converting file to opus ogg")}
    ELSE PostSend(response)

\* download_media returns result.get("path"), None when the body has none, or
\* None.
Downloaded(path) == [kind |-> "Optional[str]", path |-> path, opened |-> 0, closed |-> 0]
DownloadMedia(message_id, chat_jid, response) ==
    IF ~response.transport THEN {Downloaded(None)}
    ELSE IF response.status_code # 200 THEN {Downloaded(None)}
    ELSE IF response.body.parse # "object" THEN {Downloaded(None)}
    ELSE IF SuccessOf(response.body)
    THEN {Downloaded("path of the body"), Downloaded(None)}
    ELSE {Downloaded(None)}

Recipients == {"", "91"}
MediaPaths == {"", "a.ogg", "a.mp3"}

SendMessageCall ==
    /\ call = NoCall
    /\ \E r \in Recipients, resp \in Responses :
         \E out \in SendMessage(r, resp) :
            Finish([op |-> "send_message", recipient |-> r, response |-> resp], out)
    /\ UNCHANGED <<messages, chats, contacts, pager, processors, returned>>

SendFileCall ==
    /\ call = NoCall
    /\ \E r \in Recipients, mp \in MediaPaths, isfile \in BOOLEAN, resp \in Responses :
         \E out \in SendFile(r, mp, isfile, resp) :
            Finish([op |-> "send_file", recipient |-> r, media_path |-> mp,
                    isfile |-> isfile, response |-> resp], out)
    /\ UNCHANGED <<messages, chats, contacts, pager, processors, returned>>

SendAudioMessageCall ==
    /\ call = NoCall
    /\ \E r \in Recipients, mp \in MediaPaths, isfile \in BOOLEAN, cv \in BOOLEAN,
          resp \in Responses :
         \E out \in SendAudioMessage(r, mp, isfile, mp = "a.ogg", cv, resp) :
            Finish([op |-> "send_audio_message", recipient |-> r, media_path |-> mp,
                    isfile |-> isfile, converts |-> cv, response |-> resp], out)
    /\ UNCHANGED <<messages, chats, contacts, pager, processors, returned>>

DownloadMediaCall ==
    /\ call = NoCall
    /\ \E id \in Ids, jid \in {GroupJid, DirectJid}, resp \in Responses :
         \E out \in DownloadMedia(id, jid, resp) :
            Finish([op |-> "download_media", message_id |-> id, chat_jid |-> jid,
                    response |-> resp], out)
    /\ UNCHANGED <<messages, chats, contacts, pager, processors, returned>>

NextOutbound ==
    \/ SendMessageCall
    \/ SendFileCall
    \/ SendAudioMessageCall
    \/ DownloadMediaCall
    \/ TakeResult
SpecOutbound == Init /\ [][NextOutbound]_vars

\* The request was posted and met a non-200 response, a transport failure or
\* a body that does not parse.
Posted ==
    /\ call.op \in {"send_message", "send_file", "send_audio_message", "download_media"}
    /\ call.op # "download_media" => Truthy(call.recipient)
    /\ call.op \in {"send_file", "send_audio_message"} =>
            Truthy(call.media_path) /\ call.isfile
    /\ call.op = "send_audio_message" => call.media_path = "a.ogg" \/ call.converts
PostFailed ==
    \/ ~call.response.transport
    \/ call.response.status_code # 200
    \/ call.response.body.parse = "error"

\* C13: every outbound operation reports a non-200 response, a transport
\* failure or an unparsable body as the tuple (False, reason) with a reason,
\* and on a 200 response with a JSON object the flag it returns is the flag
\* of the body.
C13_FailureTuple ==
    Posted =>
        /\ PostFailed => ret.kind = "tuple" /\ ret.success = FALSE /\ ret.reason # ""
        /\ (~PostFailed /\ call.response.body.parse = "object") =>
                ret.kind = "tuple" /\ ret.success = SuccessOf(call.response.body)

\* What holds instead: the three send operations do so; download_media
\* returns None, without a reason, or the path.
C13_SendFailureTuple == call.op # "download_media" => C13_FailureTuple
C13_DownloadReturnsPath ==
    call.op = "download_media" =>
        /\ ret.kind = "Optional[str]"
        /\ ret.path # None =>
              (~PostFailed /\ call.response.body.parse = "object"
                 /\ SuccessOf(call.response.body))

----------------------------------------------------------------------------
\* list_chats over a store of three chats (SpecChats).

ChatsUniverse ==
    UNION {{MessageRow(t, "91", <<"a">>, FALSE, GroupJid, "A1", None),
            MessageRow(t, "91", <<"b">>, FALSE, DirectJid, "A2", None),
            MessageRow(t, "92", <<"c">>, FALSE, OtherJid, "A3", None)} :
           t \in 1..MaxTs}
\* Name filters: none, empty, and two that hold no LIKE wildcard.
ChatQueries == {NoneText, <<>>, <<"a">>, <<"T", "E">>}

BridgeStoreChats == pager = NoPager /\ BridgeStoreMessage(ChatsUniverse)
ListChatsPages ==
    pager = NoPager /\
    ListChatsCall({[query |-> q, limit |-> limit, page |-> page,
                    include_last_message |-> TRUE, sort_by |-> sb, fault |-> "none"] :
                    q \in ChatQueries, limit \in 1..MaxLimit, page \in 0..MaxPage,
                    sb \in {"last_active", "name", "size"}})

\* A caller paging through list_chats with a sort_by that is not recognized;
\* scan is the order of the table scan of the store, whatever it is.
UnorderedStart ==
    /\ pager = NoPager
    /\ call = NoCall
    /\ \E q \in ChatQueries, limit \in 1..MaxLimit, scan \in Scans :
         pager' = [op |-> "list_chats", sort_by |-> "size", query |-> q,
                   limit |-> limit, next |-> 0, acc |-> <<>>, scan |-> scan]
    /\ UNCHANGED <<messages, chats, contacts, call, ret, conns, processors, returned>>

UnorderedFetch ==
    /\ pager # NoPager
    /\ pager.next <= MaxPage
    /\ \E out \in ListChatsScanned(pager.query, pager.limit, pager.next, TRUE,
                                   pager.sort_by, "none", pager.scan) :
         /\ pager' = [pager EXCEPT !.next = @ + 1, !.acc = @ \o out.value]
         /\ conns' = conns + out.opened - out.closed
    /\ UNCHANGED <<messages, chats, contacts, call, ret, processors, returned>>

NextChats ==
    \/ BridgeStoreChats
    \/ ListChatsPages
    \/ TakeResult
    \/ UnorderedStart
    \/ UnorderedFetch
    \/ PagerEnd
SpecChats == Init /\ [][NextChats]_vars

\* The chats whose name contains the query, ignoring case (all of them when
\* no query is given).
PassesNameFilter(c, query) ==
    TruthyText(query) => c.name # None /\ Contains(Chars(c.name), query)
ChatCandidates(query) == {MapChat(c, TRUE) : c \in {x \in chats : PassesNameFilter(x, query)}}

\* Sort key of a returned chat: the smaller, the earlier.
SortKey(c, sort_by) ==
    IF sort_by = "last_active" THEN 0 - c.last_message_time ELSE NameRank(c.name)

\* page holds the positions offset+1 .. offset+limit of an ordering of the
\* candidates by key: it is sorted, of the right length, without repeats, and
\* the candidates left out split into `offset` that may come before the page
\* and the others that may come after it.
IsPageOf(page, candidates, key, limit, offset) ==
    /\ \A i \in 1..Len(page) : page[i] \in candidates
    /\ \A i \in 1..Len(page), j \in 1..Len(page) : i < j =>
            page[i] # page[j] /\ key[page[i]] <= key[page[j]]
    /\ Len(page) = Min(limit, Max(0, Cardinality(candidates) - offset))
    /\ LET rest == candidates \ {page[i] : i \in 1..Len(page)}
       IN  \E B \in SUBSET rest :
             /\ Cardinality(B) = Min(offset, Cardinality(candidates))
             /\ \A b \in B : page # <<>> => key[b] <= key[page[1]]
             /\ \A c \in rest \ B : page # <<>> /\ key[c] >= key[page[Len(page)]]

\* C14: list_chats returns the chats that pass the name filter, ordered by
\* last_message_time descending for sort_by "last_active" and by name
\* ascending for "name", the order being applied before limit and offset:
\* page p holds positions p*limit .. p*limit+limit-1 of the ordered
\* candidates.  With any other sort_by the page still holds candidates only.
C14_OrderedPages ==
    (call.op = "list_chats" /\ ret.kind = "list") =>
        LET candidates == ChatCandidates(call.a.query)
        IN  IF call.a.sort_by \in {"last_active", "name"}
            THEN IsPageOf(ret.value, candidates,
                          [c \in candidates |-> SortKey(c, call.a.sort_by)],
                          call.a.limit, call.a.page * call.a.limit)
            ELSE \A i \in 1..Len(ret.value) : ret.value[i] \in candidates

\* The second page of one, of three chats in the order of their names.
C14_Witness ==
    /\ call.op = "list_chats" /\ call.a.sort_by = "name" /\ call.a.page = 1
    /\ call.a.limit = 1 /\ call.a.query = NoneText
    /\ Cardinality(chats) = 3 /\ Len(ret.value) = 1 /\ ret.value[1].name = "Ana"

\* "name" and "last_active" order the chats differently, and another value of
\* sort_by gives an order that is neither.
C14_UnorderedReached ==
    /\ call.op = "list_chats" /\ call.a.sort_by = "size" /\ call.a.limit = 2
    /\ call.a.page = 0 /\ Len(ret.value) = 2
    /\ ret.value[1].last_message_time < ret.value[2].last_message_time
    /\ NameRank(ret.value[1].name) > NameRank(ret.value[2].name)

\* C15: with a sort_by other than "last_active" and "name" list_chats does
\* not raise, and its pages partition the chats that pass the name filter: no
\* chat comes twice, each is a candidate, and once the pages reach the end of
\* the candidates every candidate has come.
C15_UnorderedPagesPartition ==
    /\ (call.op = "list_chats" /\ call.a.sort_by = "size") => ret.kind = "list"
    /\ pager # NoPager =>
        LET candidates == ChatCandidates(pager.query)
            got == {pager.acc[i] : i \in 1..Len(pager.acc)}
        IN  /\ got \subseteq candidates
            /\ Cardinality(got) = Len(pager.acc)
            /\ pager.limit * pager.next >= Cardinality(candidates) => got = candidates

\* Three pages of one chat each, in an order that is neither that of
\* "last_active" nor that of "name".
C15_Witness ==
    /\ pager # NoPager /\ pager.limit = 1 /\ pager.next = 3 /\ Len(pager.acc) = 3
    /\ pager.acc[1].last_message_time < pager.acc[2].last_message_time
    /\ NameRank(pager.acc[1].name) > NameRank(pager.acc[2].name)

----------------------------------------------------------------------------
\* search_contacts (SpecContacts).

ContactsUniverse ==
    {ContactRow("91", "Ana", DirectJid), ContactRow("92", None, OtherJid),
     ContactRow("92", "Team", "92@lid")}
ContactQueries ==
    {<<>>, <<"a">>, <<"A", "N">>, <<"9">>, <<"1">>, <<"2">>, <<"x">>, <<"_">>, <<"%">>}

BridgeStoreContacts == BridgeStoreContact(ContactsUniverse)
SearchContactsQueries ==
    SearchContactsCall({[query |-> q, fault |-> f] : q \in ContactQueries, f \in Sites})

NextContacts ==
    \/ BridgeStoreContacts
    \/ SearchContactsQueries
    \/ TakeResult
SpecContacts == Init /\ [][NextContacts]_vars

\* text contains the literal query.
ContainsLiteral(text, query) ==
    \E i \in 0..Len(text) - Len(query) : SubSeq(text, i + 1, i + Len(query)) = query

NameOrPhoneContains(c, query) ==
    \/ c.name # None /\ Contains(Chars(c.name), query)
    \/ c.phone_number # None /\ ContainsLiteral(Chars(c.phone_number), query)

Searched == call.op = "search_contacts" /\ call.a.fault = "none"

\* C16: search_contacts returns exactly the contacts whose name contains the
\* query, ignoring case, or whose phone_number contains the literal query, a
\* contact without a name matched by its phone number included, in ascending
\* order of name, and at most 50 of them.
C16_NameOrPhoneContains ==
    Searched =>
        /\ {ret.value[i] : i \in 1..Len(ret.value)}
              = {c \in contacts : NameOrPhoneContains(c, call.a.query)}
        /\ \A i \in 1..Len(ret.value), j \in 1..Len(ret.value) : i < j =>
              /\ ret.value[i] # ret.value[j]
              /\ NameRank(ret.value[i].name) <= NameRank(ret.value[j].name)
        /\ Len(ret.value) <= SearchLimit

\* Of more than 50 contacts that match, the first 50 in name order are
\* returned (SpecFetch).
C16_FirstFifty ==
    (call.op = "search_contacts" /\ ret.kind = "rows") =>
        ret.fetched = Candidates(Min(SearchLimit, call.candidates))

\* What holds instead: the same, of the queries that hold no LIKE wildcard.
C16_NameOrPhoneContainsNoWildcard ==
    (Searched /\ ~HasWildcard(call.a.query)) => C16_NameOrPhoneContains

----------------------------------------------------------------------------
\* get_contact_chats (SpecContactChats): a group with messages of two
\* senders, a direct chat with a message of the other party only, and a chat
\* that holds no message yet.

ContactChatsUniverse ==
    UNION {{MessageRow(t, "91", <<"a">>, FALSE, GroupJid, "A1", None),
            MessageRow(t, "92", <<"b">>, FALSE, GroupJid, "A2", None),
            MessageRow(t, "92", <<"c">>, TRUE, DirectJid, "A3", None)} :
           t \in 1..MaxTs}
EmptyChats == {ChatRow(OtherJid, BridgeChatName(OtherJid), 1, None, None, None)}

BridgeStoreContactChats == BridgeStoreMessage(ContactChatsUniverse)
BridgeStoreEmptyChat == BridgeStoreChat(EmptyChats)
GetContactChatsPages ==
    GetContactChatsCall({[jid |-> j, limit |-> limit, page |-> page, fault |-> "none"] :
                            j \in {"91", "92", DirectJid, OtherJid},
                            limit \in 1..MaxLimit, page \in 0..MaxPage})

NextContactChats ==
    \/ BridgeStoreContactChats
    \/ BridgeStoreEmptyChat
    \/ GetContactChatsPages
    \/ TakeResult
SpecContactChats == Init /\ [][NextContactChats]_vars

\* The chats that hold a message sent by jid, or whose own jid is jid.
ChatsOfContact(jid) ==
    {MapChat(c, TRUE) :
        c \in {x \in chats : \/ x.jid = jid
                             \/ \E m \in messages : m.chat_jid = x.jid /\ m.sender = jid}}

\* C17: the pages of get_contact_chats(jid) hold exactly the chats with a
\* message sent by jid or whose own jid is jid, each once, ordered by
\* last_message_time descending.
C17_ChatsOfContact ==
    call.op = "get_contact_chats" =>
        LET candidates == ChatsOfContact(call.a.jid)
        IN  IsPageOf(ret.value, candidates,
                     [c \in candidates |-> SortKey(c, "last_active")],
                     call.a.limit, call.a.page * call.a.limit)

\* What holds instead: the same, in the stores where every chat holds a
\* message; a chat without messages is returned for no identifier.
EveryChatHasMessages == \A c \in chats : \E m \in messages : m.chat_jid = c.jid
C17_ChatsOfContactWithMessages == EveryChatHasMessages => C17_ChatsOfContact
C17_DirectChatWithoutOwnMessage ==
    /\ call.op = "get_contact_chats" /\ call.a.jid = DirectJid
    /\ Len(ret.value) = 1 /\ ret.value[1].jid = DirectJid

----------------------------------------------------------------------------
\* get_direct_chat_by_contact (SpecDirect): "91" writes in a group and in two
\* one-to-one chats, "92" in the group only.

DirectUniverse ==
    UNION {{MessageRow(t, "91", <<"a">>, FALSE, DirectJid, "A1", None),
            MessageRow(t, "91", <<"b">>, FALSE, GroupJid, "A2", None),
            MessageRow(t, "92", <<"c">>, FALSE, GroupJid, "A3", None),
            MessageRow(t, "91", <<"d">>, FALSE, OtherJid, "A1", None)} :
           t \in 1..MaxTs}

BridgeStoreDirect == BridgeStoreMessage(DirectUniverse)
GetDirectChatByContactPhones ==
    GetDirectChatByContactCall({[sender_phone_number |-> s, fault |-> f] :
                                    s \in {"91", "92", OtherJid},
                                    f \in Sites \cup {"execute2"}})

NextDirect ==
    \/ BridgeStoreDirect
    \/ BridgeStoreEmptyChat
    \/ GetDirectChatByContactPhones
    \/ TakeResult
SpecDirect == Init /\ [][NextDirect]_vars

\* The jids of the model that follow the one-to-one convention.
OneToOneJids == {DirectJid, OtherJid}
DirectMessagesOf(phone) ==
    {m \in messages : m.sender = phone /\ m.chat_jid \in OneToOneJids}

\* C18: get_direct_chat_by_contact(phone) returns a chat only when a message
\* sent by phone lies in a one-to-one chat; the chat returned is the chat of
\* such a message and no group; without such a message it returns not-found.
C18_DirectChatOfSender ==
    call.op = "get_direct_chat_by_contact" =>
        /\ ret.kind = "Optional[Chat]"
        /\ ret.value # NoChat =>
              /\ \E m \in DirectMessagesOf(call.a.sender_phone_number) :
                    ret.value.jid = m.chat_jid
              /\ ~IsGroup(ret.value)
        /\ DirectMessagesOf(call.a.sender_phone_number) = {} => ret.value = NoChat

\* "91" writes in the group and in a one-to-one chat, and the one-to-one chat
\* is returned.
C18_Witness ==
    /\ call.op = "get_direct_chat_by_contact" /\ call.a.sender_phone_number = "91"
    /\ \E m \in messages : m.sender = "91" /\ m.chat_jid = GroupJid
    /\ ret.value # NoChat /\ ret.value.jid \in OneToOneJids

\* Not-found for the party of a one-to-one chat that holds no message of its
\* own, and for a sender seen in a group only.
C18_NotFoundReached ==
    /\ call.op = "get_direct_chat_by_contact" /\ call.a.fault = "none"
    /\ \/ call.a.sender_phone_number = OtherJid /\ \E c \in chats : c.jid = OtherJid
       \/ call.a.sender_phone_number = "92" /\ \E m \in messages : m.sender = "92"
    /\ ret.value = NoChat

----------------------------------------------------------------------------
\* format_message (SpecFormat): senders with a named contact, with a contact
\* without a name, with two contacts, and with none.

FormatUniverse ==
    {MessageRow(1, "91", <<"a">>, FALSE, GroupJid, "A1", None),
     MessageRow(2, "91", <<"b">>, TRUE, GroupJid, "A2", "image"),
     MessageRow(2, "92", <<"c">>, FALSE, GroupJid, "A3", None),
     MessageRow(3, DirectJid, <<"d">>, FALSE, DirectJid, "A1", None)}
FormatContacts ==
    {ContactRow("91", "Ana", DirectJid), ContactRow("91", "", "91@lid"),
     ContactRow("92", None, OtherJid)}

BridgeStoreFormat == BridgeStoreMessage(FormatUniverse)
BridgeStoreContactFormat == BridgeStoreContact(FormatContacts)

NextFormat ==
    \/ BridgeStoreFormat
    \/ BridgeStoreContactFormat
    \/ FormatMessageCall
    \/ TakeResult
SpecFormat == Init /\ [][NextFormat]_vars

\* The contacts whose jid or phone_number is the sender.
ContactsOf(sender) == {c \in contacts : c.jid = sender \/ c.phone_number = sender}

\* C19: format_message returns a line, whatever becomes of the lookup of the
\* contact; the sender label is "You" when is_from_me, whatever the contact;
\* otherwise it is the non-empty name of a contact of the sender, or the raw
\* sender identifier when the lookup failed, found no contact, or found a
\* contact without a name.
C19_SenderLabel ==
    call.op = "format_message" =>
        /\ ret.kind = "str" /\ Len(ret.text) = 1
        /\ LET who == ret.text[1].who
               sender == call.message.sender
           IN  IF call.message.is_from_me THEN who = "You"
               ELSE \/ /\ call.fault = "none"
                       /\ \E c \in ContactsOf(sender) : Truthy(c.name) /\ who = c.name
                    \/ /\ who = sender
                       /\ \/ call.fault # "none"
                          \/ ContactsOf(sender) = {}
                          \/ \E c \in ContactsOf(sender) : ~Truthy(c.name)

\* The store is unavailable, the sender has a named contact, and the line
\* carries the raw identifier.
C19_Witness ==
    /\ call.op = "format_message" /\ call.fault = "connect"
    /\ ~call.message.is_from_me
    /\ \E c \in ContactsOf(call.message.sender) : Truthy(c.name)
    /\ ret.kind = "str" /\ ret.text[1].who = call.message.sender

\* "You" for a sender with a named contact, and the name of the contact.
C19_YouReached ==
    /\ call.op = "format_message" /\ call.message.is_from_me
    /\ \E c \in ContactsOf(call.message.sender) : Truthy(c.name)
    /\ ret.text[1].who = "You"
C19_NameReached ==
    /\ call.op = "format_message" /\ ~call.message.is_from_me
    /\ ret.text[1].who = "Ana"

----------------------------------------------------------------------------
\* Rows whose timestamp does not parse (SpecMapping): the empty text and a
\* garbled text, in the messages and, through the bridge, in the chats.

MappingUniverse ==
    UNION {{MessageRow(t, "91", <<"a">>, FALSE, GroupJid, "A1", None),
            MessageRow(t, "92", <<"b">>, FALSE, GroupJid, "A2", None),
            MessageRow(t, "92", <<"c">>, TRUE, DirectJid, "A3", None)} :
           t \in {0, 1, Garbled}}

BridgeStoreMapping == BridgeStoreMessage(MappingUniverse)
ListMessagesMapping ==
    ListMessagesCall({[a |-> NoFilter(DefaultLimit, 0, ic, DefaultContext, DefaultContext),
                       fault |-> NoFault] : ic \in BOOLEAN})
ListChatsMapping ==
    ListChatsCall({[query |-> NoneText, limit |-> DefaultLimit, page |-> 0,
                    include_last_message |-> il, sort_by |-> sb, fault |-> "none"] :
                    il \in BOOLEAN, sb \in {"last_active", "name"}})
GetContactChatsMapping ==
    GetContactChatsCall({[jid |-> j, limit |-> DefaultLimit, page |-> 0, fault |-> "none"] :
                            j \in {"91", "92", DirectJid}})
GetChatMapping ==
    GetChatCall({[chat_jid |-> j, include_last_message |-> il, fault |-> "none"] :
                    j \in {GroupJid, DirectJid}, il \in BOOLEAN})

NextMapping ==
    \/ BridgeStoreMapping
    \/ ListMessagesMapping
    \/ GetMessageContextCall
    \/ ListChatsMapping
    \/ GetContactChatsMapping
    \/ GetChatMapping
    \/ TakeResult
SpecMapping == Init /\ [][NextMapping]_vars

\* A timestamp text that is no ISO-8601 time.
UnparsableText(ts) == ts = 0 \/ ts = Garbled

\* The rows a call fetches when no store access fails.  The page of
\* DefaultLimit rows holds every matching row of these stores; the windows of
\* get_message_context hold every earlier and later message of the chat when
\* they are MaxCount wide, and are fetched once the target is mapped.
TargetOf(id) == CHOOSE m \in messages : m.id = id
ContextFetched ==
    IF ~\E m \in messages : m.id = call.message_id THEN {}
    ELSE LET t == TargetOf(call.message_id)
         IN  {t} \cup
             {m \in messages : /\ ~UnparsableText(t.timestamp)
                               /\ m.chat_jid = t.chat_jid
                               /\ \/ call.before = MaxCount /\ m.timestamp < t.timestamp
                                  \/ call.after = MaxCount /\ m.timestamp > t.timestamp}
MessagesFetched ==
    IF call.op = "list_messages" THEN messages
    ELSE IF call.op = "get_message_context" /\ call.fault = "none" THEN ContextFetched
    ELSE {}
ChatsFetched ==
    IF call.op = "list_chats" THEN chats
    ELSE IF call.op = "get_contact_chats"
    THEN {c \in chats : \E m \in messages :
              m.chat_jid = c.jid /\ (m.sender = call.a.jid \/ c.jid = call.a.jid)}
    ELSE IF call.op = "get_chat" THEN {c \in chats : c.jid = call.a.chat_jid}
    ELSE {}
MappingRaised == ret.kind = "ValueError" /\ ret.detail = "fromisoformat"

\* C20: when a row fetched by list_messages, get_message_context, list_chats,
\* get_contact_chats or get_chat holds a timestamp that cannot be parsed, the
\* call raises the mapping error.
C20_UnparsableRowRaises ==
    call # NoCall =>
        /\ (\E m \in MessagesFetched : UnparsableText(m.timestamp)) => MappingRaised
        /\ (\E c \in ChatsFetched : UnparsableText(c.last_message_time)) => MappingRaised

\* What holds of the message queries: every unparsable timestamp raises, the
\* empty text included.
C20_UnparsableMessageRaises ==
    call # NoCall =>
        ((\E m \in MessagesFetched : UnparsableText(m.timestamp)) => MappingRaised)

\* What holds of the chat queries: a garbled timestamp raises; an empty one
\* does not, and the chat is returned with no last_message_time; no fetched
\* chat is ever missing from a result.
C20_GarbledChatRaises ==
    call # NoCall /\ ChatsFetched # {} =>
        IF \E c \in ChatsFetched : c.last_message_time = Garbled
        THEN MappingRaised
        ELSE IF call.op = "get_chat"
        THEN ret.kind = "Optional[Chat]"
             /\ \E c \in ChatsFetched : ret.value = MapChat(c, call.a.include_last_message)
        ELSE /\ ret.kind = "list"
             /\ {ret.value[i].jid : i \in 1..Len(ret.value)} = {c.jid : c \in ChatsFetched}
             /\ Len(ret.value) = Cardinality(ChatsFetched)

\* get_chat returns a chat whose stored timestamp is the empty text.
C20_EmptyTimeReturned ==
    /\ call # NoCall /\ call.op = "get_chat"
    /\ \E c \in ChatsFetched : c.last_message_time = 0
    /\ ret.kind = "Optional[Chat]" /\ ret.value.jid = call.a.chat_jid
    /\ ret.value.last_message_time = 0
C20_GarbledChatReached ==
    /\ call # NoCall /\ call.op = "list_chats"
    /\ \E c \in ChatsFetched : c.last_message_time = Garbled
    /\ \E c \in ChatsFetched : c.last_message_time = 1
    /\ MappingRaised
C20_NeighbourRaisesReached ==
    /\ call # NoCall /\ call.op = "get_message_context" /\ call.fault = "none"
    /\ \E m \in messages : m.id = call.message_id /\ ~UnparsableText(m.timestamp)
    /\ MappingRaised

----------------------------------------------------------------------------
\* Chat.is_group (SpecGroup): chats whose jid ends with the group suffix, holds
\* it elsewhere, holds a part of it, or holds it in another case; the caller
\* reads is_group of the Chat that get_chat returned.

GroupJids ==
    {GroupJid, DirectJid, "@g.us", "g.us", "120@g.usa", "120@G.US",
     "@g.us@s.whatsapp.net", "120@g.u"}
GroupChats == {ChatRow(j, None, 1, None, None, None) : j \in GroupJids}

BridgeStoreGroup == Cardinality(chats) < MaxMsgs /\ BridgeStoreChat(GroupChats)
GetChatGroup ==
    GetChatCall({[chat_jid |-> j, include_last_message |-> TRUE, fault |-> "none"] :
                    j \in GroupJids})
ChatIsGroup ==
    /\ call # NoCall /\ call.op = "get_chat"
    /\ ret.kind = "Optional[Chat]" /\ ret.value # NoChat
    /\ call' = [op |-> "is_group", chat |-> ret.value]
    /\ ret' = [kind |-> "bool", value |-> IsGroup(ret.value), opened |-> 0, closed |-> 0]
    /\ UNCHANGED <<messages, chats, contacts, conns, pager, processors, returned>>

NextGroup ==
    \/ BridgeStoreGroup
    \/ GetChatGroup
    \/ ChatIsGroup
    \/ TakeResult
SpecGroup == Init /\ [][NextGroup]_vars

\* The jid is some text followed by "@g.us".
HasGroupSuffix(jid) ==
    \E n \in 0..Len(Chars(jid)) :
        Chars(jid) = SubSeq(Chars(jid), 1, n) \o <<"@", "g", ".", "u", "s">>

\* C21: is_group of a chat is true if and only if the jid of the chat ends
\* with "@g.us", and false for every other jid.
C21_IsGroupIffSuffix ==
    call.op = "is_group" =>
        /\ ret.value \in BOOLEAN
        /\ ret.value <=> HasGroupSuffix(call.chat.jid)

\* is_group is false for a jid that holds "@g.us" before another suffix.
C21_Witness ==
    /\ call.op = "is_group" /\ call.chat.jid = "@g.us@s.whatsapp.net"
    /\ ret.value = FALSE
C21_GroupReached ==
    call.op = "is_group" /\ call.chat.jid = GroupJid /\ ret.value = TRUE
C21_OtherCaseReached ==
    call.op = "is_group" /\ call.chat.jid = "120@G.US" /\ ret.value = FALSE

----------------------------------------------------------------------------
\* DataProcessor: the calls on the instances.

\* The property total_processed.
TotalProcessed(p) == processors[p]._processed_count

\* process_items(items) on an instance of P with a list of Lists.
ProcessItemsCall(P, Lists) ==
    /\ call = NoCall
    /\ \E p \in P, items \in Lists :
        /\ Len(returned[p]) < MaxCalls
        /\ LET result == ProcessItems(items)
           IN  /\ processors' = [processors EXCEPT
                     ![p]._processed_count = ProcessedCount(@, result)]
               /\ returned' = IF result.kind = "dict"
                              THEN [returned EXCEPT ![p] = Append(@, result.count)]
                              ELSE returned
               /\ call' = [op |-> "process_items", self |-> p, items |-> items]
               /\ ret' = result
    /\ UNCHANGED <<messages, chats, contacts, conns, pager>>

\* reset_counter() on the instance p.
ResetCounterAll(p) ==
    /\ call = NoCall
    /\ processors' = [q \in Instances |-> [_processed_count |-> 0]]
    /\ returned' = [returned EXCEPT ![p] = <<>>]
    /\ call' = [op |-> "reset_counter", self |-> p]
    /\ ret' = [kind |-> "None"]
    /\ UNCHANGED <<messages, chats, contacts, conns, pager>>
ResetCounter(p) ==
    /\ call = NoCall
    /\ processors' = [processors EXCEPT ![p]._processed_count = 0]
    /\ returned' = [returned EXCEPT ![p] = <<>>]
    /\ call' = [op |-> "reset_counter", self |-> p]
    /\ ret' = [kind |-> "None"]
    /\ UNCHANGED <<messages, chats, contacts, conns, pager>>

\* The lists of at most n items of S.
ListsOf(S, n) == {ListArg(seq) : seq \in UNION {[1..k -> S] : k \in 1..n}}

----------------------------------------------------------------------------
\* The counter (SpecCounter): two instances, lists of valid, invalid and None
\* items, the empty list and None.

CounterItems == {IntItem(1), StrItem("x"), NoneItem}
CounterLists == ListsOf(CounterItems, MaxItems) \cup {ListArg(<<>>), NoneArg}

ProcessItemsCounter == ProcessItemsCall(Instances, CounterLists)
ResetCounterCall == \E p \in Instances : ResetCounter(p)

NextCounter ==
    \/ ProcessItemsCounter
    \/ ResetCounterCall
    \/ TakeResult
SpecCounter == Init /\ [][NextCounter]_vars

RECURSIVE SumOf(_)
SumOf(seq) == IF seq = <<>> THEN 0 ELSE Head(seq) + SumOf(Tail(seq))

\* The items of a list that are numbers or numeric strings.
IsNumber(item) ==
    \/ item.type \in {"int", "float", "bool"}
    \/ item.type = "str" /\ item.v \in {"2", " 3 "}
IsProcessItems == call.op = "process_items"
IsNonEmptyList == IsProcessItems /\ call.items.type = "list" /\ call.items.v # <<>>

\* C22: total_processed of every instance is the sum of the counts that
\* process_items returned on that instance since its construction or its last
\* reset_counter; a returned count is the number of valid items, so None and
\* invalid items add nothing; after reset_counter it is 0; the sum of the
\* other instance is untouched.
C22_CounterIsSumOfCounts ==
    /\ \A p \in Instances : TotalProcessed(p) = SumOf(returned[p])
    /\ IsProcessItems /\ ret.kind = "dict" =>
          /\ ret.count = Cardinality({i \in 1..Len(call.items.v) :
                                          IsNumber(call.items.v[i])})
          /\ returned[call.self] # <<>>
          /\ returned[call.self][Len(returned[call.self])] = ret.count
    /\ call.op = "reset_counter" => TotalProcessed(call.self) = 0

\* One instance was reset while the other keeps what two calls counted.
C22_Witness ==
    /\ call.op = "reset_counter" /\ call.self = "p1"
    /\ Len(returned["p2"]) = 2 /\ TotalProcessed("p2") >= 2
    /\ TotalProcessed("p1") = 0
\* A call with only invalid and None items after a call that counted.
C22_NothingCountedReached ==
    /\ IsNonEmptyList /\ ret.kind = "dict" /\ ret.count = 0
    /\ TotalProcessed(call.self) > 0

\* C23: process_items with the empty list or with None raises
\* ApplicationError with error_code INVALID_INPUT, returns no result, and
\* leaves the counters as they were.
C23_EmptyInputRaises ==
    [][(call'.op = "process_items" /\ call.op # "process_items"
        /\ (call'.items = NoneArg \/ call'.items = ListArg(<<>>)))
       => /\ ret'.kind = "ApplicationError"
          /\ ret'.error_code = "INVALID_INPUT"
          /\ processors' = processors]_vars

\* The empty list was refused on an instance whose counter is not 0.
C23_Witness ==
    /\ IsProcessItems /\ call.items = ListArg(<<>>)
    /\ ret.kind = "ApplicationError" /\ ret.error_code = "INVALID_INPUT"
    /\ TotalProcessed(call.self) > 0
C23_NoneReached ==
    /\ IsProcessItems /\ call.items = NoneArg /\ ret.kind = "ApplicationError"

----------------------------------------------------------------------------
\* The classification of the items (SpecItems): one instance, lists of
\* numbers, numeric and other strings, None, and values of another type.

MixedItems ==
    {IntItem(1), IntItem(Huge), BoolItem(TRUE), FloatItem(5), StrItem("2"),
     StrItem(" 3 "), StrItem("x"), NoneItem, ListItem}

ProcessItemsMixed == ProcessItemsCall({"p1"}, ListsOf(MixedItems, MaxItems))
ResetCounterMixed == ResetCounter("p1")

NextItems ==
    \/ ProcessItemsMixed
    \/ ResetCounterMixed
    \/ TakeResult
SpecItems == Init /\ [][NextItems]_vars

\* The number a valid item stands for.
NumberOf(item) ==
    IF item.type = "bool" THEN (IF item.v THEN 1 ELSE 0)
    ELSE IF item.type = "str" THEN (IF item.v = "2" THEN 2 ELSE 3)
    ELSE item.v
IsSkipped(item) == item.type = "NoneType"
IsError(item) == ~IsNumber(item) /\ ~IsSkipped(item)

\* The positions (from 0) of the items of a kind, in input order.
Positions(items, Kind(_)) ==
    SelectSeq([i \in 1..Len(items) |-> i - 1], LAMBDA i : Kind(items[i + 1]))

\* The result classifies the items of the call: the valid ones in
\* valid_items in input order, the failing ones in errors with index and
\* item, None in neither; count, total and the lengths agree.
Classified ==
    LET items == call.items.v
        valid == Positions(items, IsNumber)
        failed == Positions(items, IsError)
        skipped == Positions(items, IsSkipped)
    IN  /\ ret.kind = "dict"
        /\ ret.valid_items = [k \in 1..Len(valid) |-> NumberOf(items[valid[k] + 1])]
        /\ Len(ret.errors) = Len(failed)
        /\ \A k \in 1..Len(failed) :
              /\ ret.errors[k].index = failed[k]
              /\ ret.errors[k].item = items[failed[k] + 1]
        /\ ret.count = Len(ret.valid_items)
        /\ ret.total = SumOf(ret.valid_items)
        /\ Len(ret.valid_items) + Len(ret.errors) + Len(skipped) = Len(items)

\* C24: for every non-empty list process_items returns a result in which
\* every item is classified as valid, error or skipped, the failing items
\* never stopping the loop.
C24_EveryItemClassified == IsNonEmptyList => Classified

\* What holds: the same for the lists that hold no int beyond the range of a
\* float; with such an int the call raises OverflowError.
HoldsHuge == \E i \in 1..Len(call.items.v) : call.items.v[i] = IntItem(Huge)
C24_ClassifiedUnlessOverflow ==
    IsNonEmptyList =>
        IF HoldsHuge THEN ret.kind = "OverflowError" ELSE Classified

\* An error before a valid item: the loop went on.
C24_ErrorThenValidReached ==
    /\ IsNonEmptyList /\ call.items.v = <<StrItem("x"), StrItem(" 3 ")>>
    /\ ret.kind = "dict" /\ ret.valid_items = <<3>> /\ Len(ret.errors) = 1
C24_OverflowReached ==
    /\ IsNonEmptyList /\ call.items.v = <<IntItem(Huge), IntItem(1)>>
    /\ ret.kind = "OverflowError"

----------------------------------------------------------------------------
\* The target of the window of a match (SpecList), in stores where two chats
\* hold a message with the same id.

\* The window c belongs to the match m: its message is m, and the messages
\* around it are of the chat of m.
IsOfMatch(c, m) ==
    /\ c.message.chat_jid = m.chat_jid
    /\ c.message.id = m.id
    /\ \A k \in 1..Len(c.before) : c.before[k].chat_jid = m.chat_jid
    /\ \A k \in 1..Len(c.after) : c.after[k].chat_jid = m.chat_jid

\* C25: with context requested, the message of the window of each match is
\* the match itself (same chat_jid, same id) and the window is taken from the
\* chat of the match, in every store where (chat_jid, id) is unique.
C25_WindowOfTheMatch ==
    (IsListing /\ call.a.include_context /\ ret.result # <<>>) =>
        /\ Len(ret.contexts) = Len(ret.result)
        /\ \A i \in 1..Len(ret.result) : IsOfMatch(ret.contexts[i], ret.result[i])

\* What holds: the same in the stores where no two chats share an id.
C25_WindowOfTheMatchUniqueIds == IdsUnique => C25_WindowOfTheMatch

\* The window emitted for a match is around the message of another chat.
C25_OtherChatReached ==
    /\ IsListing /\ call.a.include_context /\ ret.result # <<>>
    /\ \E i \in 1..Len(ret.result) :
          /\ ret.contexts[i].message.id = ret.result[i].id
          /\ ret.contexts[i].message.chat_jid # ret.result[i].chat_jid

----------------------------------------------------------------------------
\* Paging while the bridge appends (SpecAppend): a caller fetches the pages
\* 0, 1, 2, ... of list_messages without context, with the same filter and
\* limit, and the bridge stores messages between two of its calls.  The
\* timestamps of the messages are distinct; a message may be stored with a
\* timestamp older than those of the store.

AppendUniverse ==
    {MessageRow(t, s, <<"a">>, FALSE, IF t % 2 = 1 THEN GroupJid ELSE DirectJid,
                IF t <= 2 THEN "A1" ELSE "A2", None) :
        t \in 1..MaxTs, s \in {"91", "92"}}

BridgeAppend ==
    BridgeStoreMessage({m \in AppendUniverse :
                            \A x \in messages : x.timestamp # m.timestamp})

\* The arguments of the page `page`.
AppendArgs(sender, limit, page) ==
    [NoFilter(limit, page, FALSE, 0, 0) EXCEPT !.sender_phone_number = sender]

\* The caller notes the messages that match when it asks for page 0.
AppendStart ==
    /\ pager = NoPager
    /\ call = NoCall
    /\ \E sender \in {None, "91"}, limit \in 1..MaxLimit :
         pager' = [op |-> "list_messages while appended", sender |-> sender,
                   limit |-> limit, next |-> 0, acc |-> <<>>,
                   existing |-> {m \in messages :
                                    Where(m, AppendArgs(sender, limit, 0))}]
    /\ UNCHANGED <<messages, chats, contacts, call, ret, conns, processors, returned>>

AppendFetch ==
    /\ pager.op = "list_messages while appended"
    /\ call = NoCall
    /\ pager.next <= MaxPage
    /\ \E out \in ListMessages(AppendArgs(pager.sender, pager.limit, pager.next), NoFault) :
         /\ pager' = [pager EXCEPT !.next = @ + 1, !.acc = @ \o Returned(out)]
         /\ conns' = conns + out.opened - out.closed
    /\ UNCHANGED <<messages, chats, contacts, call, ret, processors, returned>>

NextAppend ==
    \/ BridgeAppend
    \/ AppendStart
    \/ AppendFetch
    \/ PagerEnd
SpecAppend == Init /\ [][NextAppend]_vars

Appending == pager.op = "list_messages while appended"
\* The messages that match the filter of the caller now.
MatchingNow ==
    {m \in messages : pager.sender # None => m.sender = pager.sender}
\* The message has a line on a fetched page.
SeenOnAPage(m) ==
    \E k \in 1..Len(pager.acc) :
        pager.acc[k] # NoMessagesLine /\ pager.acc[k].time = m.timestamp
\* The number of matching messages listed before m, newest first.
PositionNow(m) == Cardinality({x \in MatchingNow : x.timestamp > m.timestamp})

\* C26: no message that matched before page 0 was fetched is skipped: it is
\* on a fetched page, or the pages have not reached its position yet; a line
\* is twice on the pages only after a message was appended.
C26_NoExistingSkipped ==
    Appending =>
        /\ \A m \in pager.existing :
              SeenOnAPage(m) \/ PositionNow(m) >= pager.next * pager.limit
        /\ (\E j \in 1..Len(pager.acc), k \in 1..Len(pager.acc) :
               j # k /\ pager.acc[j] # NoMessagesLine /\ pager.acc[j] = pager.acc[k])
              => MatchingNow # pager.existing

\* A message appended after page 0 made the next page repeat a line, and the
\* older message of the store came on the page after it.
C26_Witness ==
    /\ Appending /\ pager.limit = 1 /\ Len(pager.acc) = 3
    /\ Cardinality(pager.existing) = 2
    /\ pager.acc[1] = pager.acc[2] /\ pager.acc[1] # NoMessagesLine
    /\ \A m \in pager.existing : SeenOnAPage(m)
\* A message older than those of the store was appended while paging.
C26_OlderAppendedReached ==
    /\ Appending /\ pager.next >= 2
    /\ \E x \in MatchingNow \ pager.existing :
          \A m \in pager.existing : x.timestamp < m.timestamp
    /\ pager.existing # {} /\ \A m \in pager.existing : SeenOnAPage(m)

====
